---- MODULE Spec2Model ----
(***************************************************************************)
(* TextDoom simulation kernel: the hostile AI state machine                *)
(* (SpriteManager), the player's weapon (updateWeapon) and the game loop   *)
(* that drives them.                                                       *)
(*                                                                         *)
(* Numbers are fixed point.  Positions and distances are in hundredths of  *)
(* a map unit, direction vectors in thousandths (a unit vector has length  *)
(* 1000), times and cooldowns in milliseconds.  Distance comparisons are   *)
(* made on squared distances, so they are exact on this lattice.           *)
(*                                                                         *)
(* Spec is the game loop.  The other specifications apply single functions *)
(* to arguments drawn from bounded sets: SplashSpec (applySplashDamage     *)
(* among hostiles at arbitrary distances), HarmSpec (the game loop with    *)
(* enemy projectiles hitting the player), CrowdSpec (the game loop from    *)
(* places the hostiles have moved to), WalkSpec (updatePlayer with every   *)
(* key combination), GridSpec (isWall and getWallType), RaySpec (the DDA   *)
(* loop of castSingleRay), FanSpec (castRays), SightSpec (hasLineOfSight), *)
(* DirectorySpec (the game loop with checkPickups and the respawn of       *)
(* pickups), LateSpec (the same late in a game), ArsenalSpec (updateWeapon *)
(* between switches of the weapon), ProjectileSpec (a ProjectileManager,   *)
(* which gameLoop does not have), TunnelSpec (its projectiles fired at a   *)
(* wall one cell thick), LevelSpec (the game loop on malformed spawn       *)
(* lists), SlideSpec (moveWithCollision and moveSprite on single           *)
(* displacements) and AppSpec (the game modes, the online lobby and the    *)
(* session tracking of main.ts).                                           *)
(*                                                                         *)
(* Not modelled: drawing, gore and animation frames, the second player,    *)
(* the user-name entry and the shop's purchases.                           *)
(***************************************************************************)
EXTENDS Integers, Sequences, FiniteSets, TLC

VARIABLES sprites, player, weapon, killCount, now, frame, events, log, shot, seenAgo,
          sinceAttack, app, exposed,
          probe, nextSpriteId, respawnQueue, projectiles

\* sprites, player, weapon, killCount: the program's state; now: Date.now();
\* frame, events: counters of the bounds.  Observations for the properties:
\* log: what each sprite's step of the last SpriteManager.update saw and did;
\* shot: the queries and damageSprite calls of the last updateWeapon;
\* seenAgo: simulated ms since the update in which a hostile last saw the
\* player (-1: never); sinceAttack: simulated ms since the update in which
\* a hostile last lowered the player's health (-1: never); exposed: the
\* hostile had line of sight to the player or was within the awareness
\* radius at some update; probe: the arguments and the result of the last
\* call of a grid, raycaster or projectile function, or the frame gap, the
\* keys held, the player's place and the weapon's cooldown at the start of
\* the last frame;
\* nextSpriteId: the id createSprite gives next; respawnQueue: the pickups
\* taken, with the time they come back; projectiles: the projectiles of a
\* ProjectileManager (gameLoop has none); app: the game mode, the lobby, the
\* NetworkManager and the session tracking of main.ts
vars == <<sprites, player, weapon, killCount, now, frame, events, log, shot, seenAgo,
          sinceAttack, app, exposed,
          probe, nextSpriteId, respawnQueue, projectiles>>

(***************************************************************************)
(* Bounds of the model                                                     *)
(***************************************************************************)
\* number of game-loop frames explored
MaxFrames == 7
\* Date.now() when the level is loaded (stands for the epoch clock)
Epoch == 100000
\* gaps between two frame timestamps, in ms
FrameGaps == {100, 4000}
\* number of external events in a run: a frame with a key held, a stalled
\* frame, a random turn of an idle hostile, a random spread of a ray, a
\* number key, a burst of the mouse wheel
MaxEvents == 2

\* fixed-point scales
U == 100
D == 1000

Abs(a) == IF a < 0 THEN -a ELSE a
Sign(a) == IF a > 0 THEN 1 ELSE IF a < 0 THEN -1 ELSE 0
Max(a, b) == IF a > b THEN a ELSE b
Min(a, b) == IF a < b THEN a ELSE b

\* a / b rounded to the nearest integer (b > 0), symmetric around 0
RoundDiv(a, b) ==
  IF a >= 0 THEN (2 * a + b) \div (2 * b) ELSE -((2 * (-a) + b) \div (2 * b))

RECURSIVE ISqrtBS(_, _, _)
ISqrtBS(n, lo, hi) ==
  IF hi - lo <= 1 THEN lo
  ELSE LET mid == (lo + hi) \div 2
       IN IF mid * mid <= n THEN ISqrtBS(n, mid, hi) ELSE ISqrtBS(n, lo, mid)

\* floor of the square root
ISqrt(n) == ISqrtBS(n, 0, 46341)

(***************************************************************************)
(* Grid (map.ts)                                                           *)
(***************************************************************************)
MAP_WIDTH == 24
MAP_HEIGHT == 24

MAP == <<
  <<1,1,1,1,1,1,1,1,1,1,1,1,1,1,1,1,1,1,1,1,1,1,1,1>>,
  <<1,0,0,0,0,0,0,0,0,0,0,0,0,0,0,0,0,0,0,0,0,0,0,1>>,
  <<1,0,0,0,0,0,0,0,0,0,0,0,0,0,0,0,0,0,0,0,0,0,0,1>>,
  <<1,0,0,0,0,0,0,0,0,0,0,0,0,0,0,0,0,0,0,0,0,0,0,1>>,
  <<1,0,0,0,2,2,2,2,2,0,0,0,0,0,3,3,3,3,3,0,0,0,0,1>>,
  <<1,0,0,0,2,0,0,0,2,0,0,0,0,0,3,0,0,0,3,0,0,0,0,1>>,
  <<1,0,0,0,2,0,0,0,2,0,0,0,0,0,3,0,0,0,3,0,0,0,0,1>>,
  <<1,0,0,0,2,0,0,0,2,0,0,0,0,0,3,0,0,0,3,0,0,0,0,1>>,
  <<1,0,0,0,2,2,0,2,2,0,0,0,0,0,3,3,0,3,3,0,0,0,0,1>>,
  <<1,0,0,0,0,0,0,0,0,0,0,0,0,0,0,0,0,0,0,0,0,0,0,1>>,
  <<1,0,0,0,0,0,0,0,0,0,0,0,0,0,0,0,0,0,0,0,0,0,0,1>>,
  <<1,0,0,0,0,0,0,0,0,0,4,4,4,4,0,0,0,0,0,0,0,0,0,1>>,
  <<1,0,0,0,0,0,0,0,0,0,4,0,0,4,0,0,0,0,0,0,0,0,0,1>>,
  <<1,0,0,0,0,0,0,0,0,0,4,0,0,4,0,0,0,0,0,0,0,0,0,1>>,
  <<1,0,0,0,0,0,0,0,0,0,4,4,4,4,0,0,0,0,0,0,0,0,0,1>>,
  <<1,0,0,0,0,0,0,0,0,0,0,0,0,0,0,0,0,0,0,0,0,0,0,1>>,
  <<1,0,0,0,0,0,0,0,0,0,0,0,0,0,0,0,0,0,0,0,0,0,0,1>>,
  <<1,0,0,0,5,5,5,5,5,5,0,0,0,0,6,6,6,6,6,6,0,0,0,1>>,
  <<1,0,0,0,5,0,0,0,0,5,0,0,0,0,6,0,0,0,0,6,0,0,0,1>>,
  <<1,0,0,0,5,0,0,0,0,5,0,0,0,0,6,0,0,0,0,6,0,0,0,1>>,
  <<1,0,0,0,5,0,0,0,0,0,0,0,0,0,0,0,0,0,0,6,0,0,0,1>>,
  <<1,0,0,0,5,5,5,5,5,5,0,0,0,0,6,6,6,6,6,6,0,0,0,1>>,
  <<1,0,0,0,0,0,0,0,0,0,0,0,0,0,0,0,0,0,0,0,0,0,0,1>>,
  <<1,1,1,1,1,1,1,1,1,1,1,1,1,1,1,1,1,1,1,1,1,1,1,1>> >>

\* isWall(x, y): Math.floor of the coordinate, out of bounds is solid
isWall(x, y) ==
  LET mapX == x \div U
      mapY == y \div U
  IN IF mapX < 0 \/ mapX >= MAP_WIDTH \/ mapY < 0 \/ mapY >= MAP_HEIGHT
     THEN TRUE
     ELSE MAP[mapY + 1][mapX + 1] # 0

\* getWallType that is 0 outside the grid
getWallType_outside0(x, y) ==
  LET mapX == x \div U
      mapY == y \div U
  IN IF mapX < 0 \/ mapX >= MAP_WIDTH \/ mapY < 0 \/ mapY >= MAP_HEIGHT
     THEN 0
     ELSE MAP[mapY + 1][mapX + 1]

\* getWallType(x, y)
getWallType(x, y) ==
  LET mapX == x \div U
      mapY == y \div U
  IN IF mapX < 0 \/ mapX >= MAP_WIDTH \/ mapY < 0 \/ mapY >= MAP_HEIGHT
     THEN 1
     ELSE MAP[mapY + 1][mapX + 1]

\* no grid or raycaster function has been called
NoProbe == [kind |-> "none"]

\* squared distance of two points (SpriteManager.distance, squared)
Dist2(a, b) == (a.x - b.x) * (a.x - b.x) + (a.y - b.y) * (a.y - b.y)

\* line-of-sight samples per map unit
LosPerUnit == 4

\* Math.ceil(dist * 4): the least n with n >= 4 * sqrt(dsq) / U
LosSteps(dsq) ==
  LET r == ISqrt(dsq * LosPerUnit * LosPerUnit)
      c == IF r * r = dsq * LosPerUnit * LosPerUnit THEN r ELSE r + 1
  IN (c + U - 1) \div U

\* a line of sight that samples the first half of the segment only
hasLineOfSight_half(from, to) ==
  LET dx == to.x - from.x
      dy == to.y - from.y
      steps == LosSteps(dx * dx + dy * dy)
  IN \A i \in 1..((steps - 1) \div 2) :
       ~isWall((from.x * steps + dx * i) \div steps,
               (from.y * steps + dy * i) \div steps)

\* SpriteManager.hasLineOfSight: samples i = 1 .. steps-1 of the segment
hasLineOfSight(from, to) ==
  LET dx == to.x - from.x
      dy == to.y - from.y
      steps == LosSteps(dx * dx + dy * dy)
  IN \A i \in 1..(steps - 1) :
       ~isWall((from.x * steps + dx * i) \div steps,
               (from.y * steps + dy * i) \div steps)

(***************************************************************************)
(* Per-kind stats (sprites.ts ENEMY_STATS): speed in hundredths of a unit  *)
(* per second, ranges in hundredths, cooldown in ms; projectileDamage 0    *)
(* stands for "no ranged attack" and projectileRange 0 for no such field.  *)
(***************************************************************************)
ENEMY_STATS ==
  [ imp |-> [health |-> 15, speed |-> 120, damage |-> 5, attackRange |-> 120,
             attackCooldown |-> 1500, projectileDamage |-> 0,
             projectileRange |-> 0, floats |-> FALSE],
    demon |-> [health |-> 40, speed |-> 100, damage |-> 10, attackRange |-> 150,
               attackCooldown |-> 2000, projectileDamage |-> 0,
               projectileRange |-> 0, floats |-> FALSE],
    cacodemon |-> [health |-> 60, speed |-> 60, damage |-> 8, attackRange |-> 800,
                   attackCooldown |-> 3000, projectileDamage |-> 8,
                   projectileRange |-> 800, floats |-> TRUE],
    baron |-> [health |-> 100, speed |-> 80, damage |-> 15, attackRange |-> 180,
               attackCooldown |-> 2500, projectileDamage |-> 12,
               projectileRange |-> 1000, floats |-> FALSE],
    cyberdemon |-> [health |-> 200, speed |-> 50, damage |-> 25, attackRange |-> 1200,
                    attackCooldown |-> 4000, projectileDamage |-> 25,
                    projectileRange |-> 1200, floats |-> FALSE] ]

EnemyKinds == DOMAIN ENEMY_STATS

isEnemy(type) == type \in {"imp", "demon", "cacodemon", "baron", "cyberdemon"}

isPickup(type) ==
  type \in {"health", "armor", "ammo_bullets", "ammo_shells", "ammo_rockets",
            "ammo_cells", "ammo_fuel"}

SpriteStates == {"idle", "chase", "attack", "pain", "dead"}

\* createSprite: the id is the position in the spawn list (nextSpriteId is
\* reset to 1 by spawnSprites)
createSprite(spawn, id) ==
  [ id |-> id,
    pos |-> [x |-> spawn.x * U + U \div 2, y |-> spawn.y * U + U \div 2],
    type |-> spawn.type,
    health |-> IF spawn.type \in EnemyKinds THEN ENEMY_STATS[spawn.type].health ELSE 0,
    state |-> "idle",
    lastSeen |-> 0,
    lastSeenPos |-> [x |-> 0, y |-> 0],
    attackCooldown |-> 0,
    dir |-> [x |-> D, y |-> 0] ]

\* SpriteManager.spawnSprites
spawnSprites(spawns) == [i \in 1..Len(spawns) |-> createSprite(spawns[i], i)]

\* pain-stun duration set by damageSprite, ms
PainDuration == 300

\* damageSprite without the clamp of the health at 0
damageSprite_noClamp(s, damage) ==
  LET h == s.health - damage
  IN IF h <= 0
     THEN [s EXCEPT !.state = "dead", !.health = h]
     ELSE [s EXCEPT !.state = "pain", !.health = h, !.attackCooldown = PainDuration]

\* SpriteManager.damageSprite applied to one sprite record
damageSprite(s, damage) ==
  LET h == s.health - damage
  IN IF h <= 0
     THEN [s EXCEPT !.state = "dead", !.health = 0]
     ELSE [s EXCEPT !.state = "pain", !.health = h, !.attackCooldown = PainDuration]

RECURSIVE GCD(_, _)
GCD(a, b) == IF b = 0 THEN a ELSE GCD(b, a % b)

\* Math.floor(damage * (1 - dist / radius)) for dist < radius, exactly: the
\* number of k in 1..damage with dist <= radius * (damage - k) / damage
\* (the fraction radius / damage reduced, to stay within 32 bits)
SplashAmount(dsq, radius, damage) ==
  LET g == GCD(radius, damage)
      r == radius \div g
      d == damage \div g
  IN Cardinality({k \in 1..damage : dsq * d * d <= r * r * (damage - k) * (damage - k)})

\* SplashHit without the lower limit of 0.1 on the distance
SplashHit_center(sp, center, radius, damage) ==
  { i \in 1..Len(sp) :
      /\ ~(sp[i].state = "dead" \/ ~isEnemy(sp[i].type))
      /\ Dist2(center, sp[i].pos) < radius * radius
      /\ SplashAmount(Dist2(center, sp[i].pos), radius, damage) > 0 }

\* the sprites applySplashDamage damages: live hostiles with
\* 0.1 < dist < radius whose floored damage is positive
SplashHit(sp, center, radius, damage) ==
  { i \in 1..Len(sp) :
      /\ ~(sp[i].state = "dead" \/ ~isEnemy(sp[i].type))
      /\ Dist2(center, sp[i].pos) < radius * radius
      /\ Dist2(center, sp[i].pos) * 100 > U * U
      /\ SplashAmount(Dist2(center, sp[i].pos), radius, damage) > 0 }

\* SpriteManager.applySplashDamage
applySplashDamage(sp, center, radius, damage) ==
  LET hit == SplashHit(sp, center, radius, damage)
  IN [i \in 1..Len(sp) |->
        IF i \in hit
        THEN damageSprite(sp[i], SplashAmount(Dist2(center, sp[i].pos), radius, damage))
        ELSE sp[i]]

\* tan(crosshairAngle) = tan(0.1), in 1/10000
CrosshairTan == 1003

\* tan(0.2), the wider cone of getSpriteInDirectionWithRange, in 1/10000
FlameTan == 2027

\* |angleDiff| < crosshairAngle for the vector d seen from the aim direction:
\* the angle between the two is below the cone's half-angle
InCone(aim, dx, dy, tan) ==
  LET dot == aim.x * dx + aim.y * dy
      cross == Abs(aim.x * dy - aim.y * dx)
  IN dot > 0 /\ cross * 1000 <= (tan * dot - 1) \div 10

\* "Too close" limit of the targeting queries, hundredths
TooClose == 50

RECURSIVE ClosestFrom_deadIncluded(_, _, _, _, _, _, _, _)
\* the targeting loop without the test for dead hostiles
ClosestFrom_deadIncluded(sp, from, aim, tan, maxRange, i, best, bestD2) ==
  IF i > Len(sp) THEN best
  ELSE LET s == sp[i]
           dsq == Dist2(s.pos, from)
       IN IF ~isEnemy(s.type)
          THEN ClosestFrom_deadIncluded(sp, from, aim, tan, maxRange, i + 1, best, bestD2)
          ELSE IF dsq < TooClose * TooClose \/ (maxRange > 0 /\ dsq > maxRange * maxRange)
          THEN ClosestFrom_deadIncluded(sp, from, aim, tan, maxRange, i + 1, best, bestD2)
          ELSE IF /\ InCone(aim, s.pos.x - from.x, s.pos.y - from.y, tan)
                  /\ hasLineOfSight(from, s.pos)
                  /\ (best = 0 \/ dsq < bestD2)
          THEN ClosestFrom_deadIncluded(sp, from, aim, tan, maxRange, i + 1, i, dsq)
          ELSE ClosestFrom_deadIncluded(sp, from, aim, tan, maxRange, i + 1, best, bestD2)

RECURSIVE ClosestFrom_lastTie(_, _, _, _, _, _, _, _)
\* the targeting loop that keeps the last of the hostiles at the least
\* distance
ClosestFrom_lastTie(sp, from, aim, tan, maxRange, i, best, bestD2) ==
  IF i > Len(sp) THEN best
  ELSE LET s == sp[i]
           dsq == Dist2(s.pos, from)
       IN IF s.state = "dead" \/ ~isEnemy(s.type)
          THEN ClosestFrom_lastTie(sp, from, aim, tan, maxRange, i + 1, best, bestD2)
          ELSE IF dsq < TooClose * TooClose \/ (maxRange > 0 /\ dsq > maxRange * maxRange)
          THEN ClosestFrom_lastTie(sp, from, aim, tan, maxRange, i + 1, best, bestD2)
          ELSE IF /\ InCone(aim, s.pos.x - from.x, s.pos.y - from.y, tan)
                  /\ hasLineOfSight(from, s.pos)
                  /\ (best = 0 \/ dsq <= bestD2)
          THEN ClosestFrom_lastTie(sp, from, aim, tan, maxRange, i + 1, i, dsq)
          ELSE ClosestFrom_lastTie(sp, from, aim, tan, maxRange, i + 1, best, bestD2)

RECURSIVE ClosestFrom(_, _, _, _, _, _, _, _)
\* the loop of getSpriteInDirection / getSpriteInDirectionWithRange from
\* sprite i on; best = 0 is null, maxRange = 0 is "no range limit"
ClosestFrom(sp, from, aim, tan, maxRange, i, best, bestD2) ==
  IF i > Len(sp) THEN best
  ELSE LET s == sp[i]
           dsq == Dist2(s.pos, from)
       IN IF s.state = "dead" \/ ~isEnemy(s.type)
          THEN ClosestFrom(sp, from, aim, tan, maxRange, i + 1, best, bestD2)
          ELSE IF dsq < TooClose * TooClose \/ (maxRange > 0 /\ dsq > maxRange * maxRange)
          THEN ClosestFrom(sp, from, aim, tan, maxRange, i + 1, best, bestD2)
          ELSE IF /\ InCone(aim, s.pos.x - from.x, s.pos.y - from.y, tan)
                  /\ hasLineOfSight(from, s.pos)
                  /\ (best = 0 \/ dsq < bestD2)
          THEN ClosestFrom(sp, from, aim, tan, maxRange, i + 1, i, dsq)
          ELSE ClosestFrom(sp, from, aim, tan, maxRange, i + 1, best, bestD2)

\* SpriteManager.getSpriteInDirection with the aim direction already
\* rotated by angleOffset; the result is an index into sprites, 0 for null
getSpriteInDirection(sp, from, aim) ==
  ClosestFrom(sp, from, aim, CrosshairTan, 0, 1, 0, 0)

\* SpriteManager.getSpriteInDirectionWithRange
getSpriteInDirectionWithRange(sp, from, aim, maxRange) ==
  ClosestFrom(sp, from, aim, FlameTan, maxRange, 1, 0, 0)

\* SpriteManager.getSpriteAtCenter
getSpriteAtCenter(sp, pl) == getSpriteInDirection(sp, pl.pos, pl.dir)

\* cos and sin (in 1/1000) of the angles the model rotates by, in mrad
TRIG ==
  [a \in {0, 50, 100, 125, 250} |->
     CASE a = 0 -> [cos |-> 1000, sin |-> 0]
       [] a = 50 -> [cos |-> 999, sin |-> 50]
       [] a = 100 -> [cos |-> 995, sin |-> 100]
       [] a = 125 -> [cos |-> 992, sin |-> 125]
       [] a = 250 -> [cos |-> 969, sin |-> 247]]

\* the vector v rotated by angle (mrad, either sign)
Rotate(v, angle) ==
  LET c == TRIG[Abs(angle)].cos
      sn == Sign(angle) * TRIG[Abs(angle)].sin
  IN [x |-> RoundDiv(v.x * c - v.y * sn, D), y |-> RoundDiv(v.x * sn + v.y * c, D)]

(***************************************************************************)
(* Weapons (weapon.ts).  cooldown in ms, splash radius and range in        *)
(* hundredths (0 = none), spinup in thousandths.                           *)
(***************************************************************************)
WEAPON_STATS ==
  [ fist |-> [damage |-> 5, cooldown |-> 400, ammoType |-> "none", ammoPerShot |-> 0,
              pellets |-> 0, splash |-> 0, range |-> 0],
    knife |-> [damage |-> 12, cooldown |-> 250, ammoType |-> "none", ammoPerShot |-> 0,
               pellets |-> 0, splash |-> 0, range |-> 0],
    hammer |-> [damage |-> 35, cooldown |-> 800, ammoType |-> "none", ammoPerShot |-> 0,
                pellets |-> 0, splash |-> 0, range |-> 0],
    axe |-> [damage |-> 25, cooldown |-> 500, ammoType |-> "none", ammoPerShot |-> 0,
             pellets |-> 0, splash |-> 0, range |-> 0],
    pistol |-> [damage |-> 15, cooldown |-> 300, ammoType |-> "bullets", ammoPerShot |-> 1,
                pellets |-> 0, splash |-> 0, range |-> 0],
    shotgun |-> [damage |-> 7, cooldown |-> 900, ammoType |-> "shells", ammoPerShot |-> 1,
                 pellets |-> 8, splash |-> 0, range |-> 0],
    chaingun |-> [damage |-> 12, cooldown |-> 80, ammoType |-> "bullets", ammoPerShot |-> 1,
                  pellets |-> 0, splash |-> 0, range |-> 0],
    rocket |-> [damage |-> 100, cooldown |-> 1200, ammoType |-> "rockets", ammoPerShot |-> 1,
                pellets |-> 0, splash |-> 300, range |-> 0],
    plasma |-> [damage |-> 25, cooldown |-> 100, ammoType |-> "cells", ammoPerShot |-> 1,
                pellets |-> 0, splash |-> 0, range |-> 0],
    bfg |-> [damage |-> 400, cooldown |-> 3000, ammoType |-> "cells", ammoPerShot |-> 40,
             pellets |-> 0, splash |-> 500, range |-> 0],
    flamethrower |-> [damage |-> 8, cooldown |-> 50, ammoType |-> "fuel", ammoPerShot |-> 1,
                      pellets |-> 0, splash |-> 0, range |-> 500] ]

WEAPON_ORDER ==
  <<"fist", "knife", "hammer", "axe", "pistol", "shotgun", "chaingun", "rocket",
    "plasma", "bfg", "flamethrower">>

\* the number keys of player 1 the model presses (bound): Digit3
NumberKeys == {3}

\* the notches of one burst of wheel events, > 0 for deltaY > 0 (bound)
WheelNotches == {-5, 1, 3, 5}

\* the random spread of a flamethrower ray, mrad (bound)
SpreadAngles == {0, 100}

\* the random spread of a shotgun pellet, mrad (bound)
PelletAngles == {0, 50}

\* the rays of one shot of the weapon
RayCount(type) ==
  IF type = "flamethrower" THEN 3 ELSE WEAPON_STATS[type].pellets

createWeapon == [type |-> "pistol", cooldown |-> 0, isFiring |-> FALSE, spinup |-> 0]

hasAmmoForWeapon(pl, weaponType) ==
  LET stats == WEAPON_STATS[weaponType]
  IN IF stats.ammoType = "none" THEN TRUE
     ELSE pl.ammo[stats.ammoType] >= stats.ammoPerShot

\* switchWeapon (hasWeapon is always true)
switchWeapon(w, newType) ==
  IF w.type = newType THEN w
  ELSE [w EXCEPT !.type = newType, !.cooldown = 200, !.isFiring = FALSE, !.spinup = 0]

\* WEAPON_ORDER.indexOf, 0-based
IndexOf(type) == (CHOOSE k \in 1..Len(WEAPON_ORDER) : WEAPON_ORDER[k] = type) - 1

RECURSIVE NextWith(_, _, _, _)
\* the loop of switchToNextWeapon (step = 1) and switchToPrevWeapon
\* (step = -1) from offset i on: the first weapon with ammunition
NextWith(w, pl, step, i) ==
  IF i >= Len(WEAPON_ORDER) THEN w
  ELSE LET index == (IndexOf(w.type) + step * i + Len(WEAPON_ORDER)) % Len(WEAPON_ORDER)
       IN IF hasAmmoForWeapon(pl, WEAPON_ORDER[index + 1])
          THEN switchWeapon(w, WEAPON_ORDER[index + 1])
          ELSE NextWith(w, pl, step, i + 1)

switchToNextWeapon(w, pl) == NextWith(w, pl, 1, 1)

switchToPrevWeapon(w, pl) == NextWith(w, pl, -1, 1)

\* switchWeaponByNumber
switchWeaponByNumber(w, num) ==
  IF num < 1 \/ num > Len(WEAPON_ORDER) THEN w
  ELSE switchWeapon(w, WEAPON_ORDER[num])

RECURSIVE onWheel(_, _, _)
\* InputManager.onWheel for a burst of n wheel events
onWheel(w, pl, n) ==
  IF n = 0 THEN w
  ELSE IF n < 0 THEN onWheel(switchToPrevWeapon(w, pl), pl, n + 1)
  ELSE onWheel(switchToNextWeapon(w, pl), pl, n - 1)

\* a damageSprite call that does not count the kill
Damage_uncounted(m, i, damage) ==
  [ sp |-> [m.sp EXCEPT ![i] = damageSprite(@, damage)],
    kills |-> m.kills,
    calls |-> Append(m.calls, [target |-> i, damage |-> damage, before |-> m.sp[i],
                               after |-> damageSprite(m.sp[i], damage)]) ]

\* one damageSprite call on sprite i of the manager state m = [sp, kills, calls]
Damage(m, i, damage) ==
  [ sp |-> [m.sp EXCEPT ![i] = damageSprite(@, damage)],
    kills |-> m.kills + (IF m.sp[i].health - damage <= 0 THEN 1 ELSE 0),
    calls |-> Append(m.calls, [target |-> i, damage |-> damage, before |-> m.sp[i],
                               after |-> damageSprite(m.sp[i], damage)]) ]

\* applySplashDamage on the manager state
Splash(m, center, radius, damage) ==
  LET hit == SplashHit(m.sp, center, radius, damage)
      amount(i) == SplashAmount(Dist2(center, m.sp[i].pos), radius, damage)
      order == CHOOSE q \in [1..Cardinality(hit) -> hit] :
                 \A a, b \in 1..Cardinality(hit) : a < b => q[a] < q[b]
  IN [ sp |-> applySplashDamage(m.sp, center, radius, damage),
       kills |-> m.kills + Cardinality({i \in hit : m.sp[i].health - amount(i) <= 0}),
       calls |-> m.calls \o [k \in 1..Cardinality(hit) |->
                   [target |-> order[k], damage |-> amount(order[k]),
                    before |-> m.sp[order[k]],
                    after |-> damageSprite(m.sp[order[k]], amount(order[k]))]] ]

RECURSIVE Rays(_, _, _, _, _, _)

\* one ray: the damageSprite call on the sprite hit, then the next ray
RayHit(m, q, pl, w, angles, k, aim, hit) ==
  Rays(IF hit # 0 THEN Damage(m, hit, WEAPON_STATS[w.type].damage) ELSE m,
       Append(q, [target |-> hit, sp |-> m.sp, aim |-> aim,
                  tan |-> IF w.type = "flamethrower" THEN FlameTan ELSE CrosshairTan,
                  range |-> WEAPON_STATS[w.type].range]),
       pl, w, angles, k + 1)

\* one ray: the targeting query in the direction aim
Ray(m, q, pl, w, angles, k, aim) ==
  RayHit(m, q, pl, w, angles, k, aim,
         IF w.type = "flamethrower"
         THEN getSpriteInDirectionWithRange(m.sp, pl.pos, aim, WEAPON_STATS[w.type].range)
         ELSE getSpriteInDirection(m.sp, pl.pos, aim))

\* the rays of the flamethrower and the pellets of the shotgun from ray k
\* on, angles = the random spreads
Rays(m, q, pl, w, angles, k) ==
  IF k > Len(angles) THEN [m |-> m, queries |-> q]
  ELSE Ray(m, q, pl, w, angles, k, Rotate(pl.dir, angles[k]))

NoShot == [fired |-> FALSE, from |-> [x |-> 0, y |-> 0], queries |-> <<>>,
           splash |-> <<>>, calls |-> <<>>]

\* the manager state before a shot
NoCalls(sp) == [sp |-> sp, kills |-> 0, calls |-> <<>>]

\* the cooldown and the chaingun's spinup at the start of updateWeapon
tick(w, dt, isFiring, pl) ==
  LET cd == IF w.cooldown > 0 THEN w.cooldown - dt ELSE w.cooldown
  IN [w EXCEPT !.cooldown = cd,
               !.isFiring = IF w.cooldown > 0 /\ cd <= 0 THEN FALSE ELSE @,
               !.spinup = IF w.type # "chaingun" THEN 0
                          ELSE IF isFiring /\ hasAmmoForWeapon(pl, "chaingun")
                          THEN Min(1000, @ + dt * 3)
                          ELSE Max(0, @ - dt * 2)]

\* the weapon after it fired
fired(w) ==
  [w EXCEPT !.isFiring = TRUE,
            !.cooldown = IF w.type = "chaingun"
                         THEN (WEAPON_STATS[w.type].cooldown * (3000 - w.spinup)) \div 2000
                         ELSE WEAPON_STATS[w.type].cooldown]

\* the player after the shot's ammunition is consumed
spend(pl, stats) ==
  IF stats.ammoType # "none"
  THEN [pl EXCEPT !.ammo[stats.ammoType] = @ - stats.ammoPerShot]
  ELSE pl

\* the result of a shot of the flamethrower or the shotgun
RaysShot(w, pl, r) ==
  [weapon |-> fired(w), player |-> spend(pl, WEAPON_STATS[w.type]),
   sprites |-> r.m.sp, kills |-> r.m.kills,
   shot |-> [fired |-> TRUE, from |-> pl.pos, queries |-> r.queries,
             splash |-> <<>>, calls |-> r.m.calls]]

\* the result of a single shot: m1 is the manager after the hit, m2 after
\* the splash
SingleShot(w, pl, sp, hit, doSplash, m1, m2) ==
  [weapon |-> fired(w), player |-> spend(pl, WEAPON_STATS[w.type]),
   sprites |-> m2.sp, kills |-> m2.kills,
   shot |-> [fired |-> TRUE, from |-> pl.pos,
             queries |-> <<[target |-> hit, sp |-> sp, aim |-> pl.dir,
                            tan |-> CrosshairTan, range |-> 0]>>,
             splash |-> IF doSplash
                        THEN <<[center |-> sp[hit].pos, sp |-> m1.sp,
                                radius |-> WEAPON_STATS[w.type].splash,
                                damage |-> WEAPON_STATS[w.type].damage \div 2]>>
                        ELSE <<>>,
             calls |-> m2.calls]]

\* SingleSplash whose splash has the full damage of the weapon
SingleSplash_full(w, pl, sp, hit, doSplash, m1) ==
  SingleShot(w, pl, sp, hit, doSplash, m1,
             IF doSplash
             THEN Splash(m1, sp[hit].pos, WEAPON_STATS[w.type].splash,
                         WEAPON_STATS[w.type].damage)
             ELSE m1)

\* a single shot after the hit: the splash of rockets and the BFG
SingleSplash(w, pl, sp, hit, doSplash, m1) ==
  SingleShot(w, pl, sp, hit, doSplash, m1,
             IF doSplash
             THEN Splash(m1, sp[hit].pos, WEAPON_STATS[w.type].splash,
                         WEAPON_STATS[w.type].damage \div 2)
             ELSE m1)

\* a single shot at the sprite hit (0 for none)
SingleHit(w, pl, sp, hit) ==
  SingleSplash(w, pl, sp, hit, hit # 0 /\ WEAPON_STATS[w.type].splash > 0,
               IF hit # 0 THEN Damage(NoCalls(sp), hit, WEAPON_STATS[w.type].damage)
               ELSE NoCalls(sp))

\* the hit detection of updateWeapon for the weapon w that fires
fire(w, pl, sp, angles) ==
  IF w.type = "flamethrower" \/ WEAPON_STATS[w.type].pellets > 0
  THEN RaysShot(w, pl, Rays(NoCalls(sp), <<>>, pl, w, angles, 1))
  ELSE SingleHit(w, pl, sp, getSpriteAtCenter(sp, pl))

\* updateWeapon that lets a dead player fire
tryFire_deadFires(w, isFiring, pl, sp, angles) ==
  IF isFiring /\ w.cooldown <= 0 /\ hasAmmoForWeapon(pl, w.type)
  THEN fire(w, pl, sp, angles)
  ELSE [weapon |-> w, player |-> pl, sprites |-> sp, kills |-> 0, shot |-> NoShot]

\* updateWeapon after the cooldown's update
tryFire(w, isFiring, pl, sp, angles) ==
  IF isFiring /\ w.cooldown <= 0 /\ ~pl.isDead /\ hasAmmoForWeapon(pl, w.type)
  THEN fire(w, pl, sp, angles)
  ELSE [weapon |-> w, player |-> pl, sprites |-> sp, kills |-> 0, shot |-> NoShot]

\* updateWeapon(weapon, deltaTime, isFiring, player, spriteManager):
\* the result is the new weapon, player, sprites, the kills it added and
\* the record of the shot
updateWeapon(w, dt, isFiring, pl, sp, angles) ==
  tryFire(tick(w, dt, isFiring, pl), isFiring, pl, sp, angles)

(***************************************************************************)
(* Player (player.ts)                                                      *)
(***************************************************************************)
\* COLLISION_MARGIN of player.ts, hundredths
PLAYER_MARGIN == 20
\* CONFIG.moveSpeed, hundredths of a unit per second
MoveSpeed == 350
\* CONFIG.rotSpeed, mrad per second
RotSpeed == 2500

createPlayer(spawn) ==
  [ pos |-> [x |-> spawn.x, y |-> spawn.y],
    dir |-> [x |-> spawn.dirX, y |-> spawn.dirY],
    plane |-> [x |-> 0, y |-> (spawn.dirX * 66) \div 100],
    health |-> 100,
    armor |-> 0,
    ammo |-> [bullets |-> 100, shells |-> 20, rockets |-> 5, cells |-> 50, fuel |-> 50],
    isDead |-> FALSE ]

\* moveWithCollision that tests the move in Y from the old X
moveWithCollision_oldX(pl, nx, ny, den) ==
  LET newX == pl.pos.x + RoundDiv(nx, den)
      newY == pl.pos.y + RoundDiv(ny, den)
      x1 == IF ~isWall(newX + Sign(nx) * PLAYER_MARGIN, pl.pos.y) THEN newX ELSE pl.pos.x
      y1 == IF ~isWall(pl.pos.x, newY + Sign(ny) * PLAYER_MARGIN) THEN newY ELSE pl.pos.y
  IN [pl EXCEPT !.pos = [x |-> x1, y |-> y1]]

\* moveWithCollision; nx, ny are dx, dy before scaling (their signs are the
\* signs of dx, dy), scaled by 1 / den
moveWithCollision(pl, nx, ny, den) ==
  LET newX == pl.pos.x + RoundDiv(nx, den)
      newY == pl.pos.y + RoundDiv(ny, den)
      x1 == IF ~isWall(newX + Sign(nx) * PLAYER_MARGIN, pl.pos.y) THEN newX ELSE pl.pos.x
      y1 == IF ~isWall(x1, newY + Sign(ny) * PLAYER_MARGIN) THEN newY ELSE pl.pos.y
  IN [pl EXCEPT !.pos = [x |-> x1, y |-> y1]]

\* rotate: the direction and the camera plane
rotate(pl, angle) ==
  [pl EXCEPT !.dir = Rotate(pl.dir, angle), !.plane = Rotate(pl.plane, angle)]

NoInput == [forward |-> FALSE, backward |-> FALSE, left |-> FALSE, right |-> FALSE,
            strafeLeft |-> FALSE, strafeRight |-> FALSE, fire |-> FALSE]

\* the moves of updatePlayer, k = moveSpeed * deltaTime
forward(pl, input, k) ==
  IF input.forward THEN moveWithCollision(pl, pl.dir.x * k, pl.dir.y * k, 1000000) ELSE pl

backward(pl, input, k) ==
  IF input.backward THEN moveWithCollision(pl, -pl.dir.x * k, -pl.dir.y * k, 1000000) ELSE pl

strafeLeft(pl, input, k) ==
  IF input.strafeLeft THEN moveWithCollision(pl, -pl.dir.y * k, pl.dir.x * k, 1000000) ELSE pl

strafeRight(pl, input, k) ==
  IF input.strafeRight THEN moveWithCollision(pl, pl.dir.y * k, -pl.dir.x * k, 1000000) ELSE pl

\* the rotations of updatePlayer, a = rotSpeed * deltaTime in mrad
turnLeft(pl, input, a) == IF input.left THEN rotate(pl, a) ELSE pl

turnRight(pl, input, a) == IF input.right THEN rotate(pl, -a) ELSE pl

\* updatePlayer
updatePlayer(pl, input, dt) ==
  IF pl.isDead THEN pl
  ELSE turnRight(
         turnLeft(
           strafeRight(
             strafeLeft(
               backward(forward(pl, input, MoveSpeed * dt), input, MoveSpeed * dt),
               input, MoveSpeed * dt),
             input, MoveSpeed * dt),
           input, (RotSpeed * dt) \div 1000),
         input, (RotSpeed * dt) \div 1000)

(***************************************************************************)
(* Hostile AI (sprites.ts)                                                 *)
(***************************************************************************)
\* COLLISION_MARGIN of sprites.ts, hundredths
COLLISION_MARGIN == 30
\* distance below which an idle hostile with line of sight notices the player
AwarenessRadius == 1200
\* the forget timeout of updateChase, ms of Date.now()
ForgetTimeout == 3000
\* distance above which a hostile uses its ranged attack, hundredths
MeleeLimit == 200

RECURSIVE Separate(_, _, _, _)
\* the separation loop of moveSprite: pos is the moving sprite's position
Separate(sp, i, pos, j) ==
  IF j > Len(sp) THEN pos
  ELSE LET o == sp[j]
           dsq == Dist2(pos, o.pos)
       IN IF \/ o.id = sp[i].id
             \/ o.state = "dead" \/ o.type = "corpse" \/ o.type = "gib"
             \/ isPickup(o.type)
          THEN Separate(sp, i, pos, j + 1)
          ELSE IF dsq < 80 * 80 /\ dsq > 1
          THEN LET dist == ISqrt(dsq * 100)
               IN Separate(sp, i,
                           [x |-> pos.x + RoundDiv((pos.x - o.pos.x) * 100, dist),
                            y |-> pos.y + RoundDiv((pos.y - o.pos.y) * 100, dist)],
                           j + 1)
          ELSE Separate(sp, i, pos, j + 1)

\* moveSprite that tests the move in Y from the old X
moveSprite_oldX(sp, i, nx, ny, den, stats) ==
  LET s == sp[i]
      newX == s.pos.x + RoundDiv(nx, den)
      newY == s.pos.y + RoundDiv(ny, den)
      x1 == IF stats.floats
            THEN (IF ~isWall(newX, s.pos.y) THEN newX ELSE s.pos.x)
            ELSE (IF ~isWall(newX + Sign(nx) * COLLISION_MARGIN, s.pos.y)
                  THEN newX ELSE s.pos.x)
      y1 == IF stats.floats
            THEN (IF ~isWall(s.pos.x, newY) THEN newY ELSE s.pos.y)
            ELSE (IF ~isWall(s.pos.x, newY + Sign(ny) * COLLISION_MARGIN)
                  THEN newY ELSE s.pos.y)
  IN [sp EXCEPT ![i].pos = Separate(sp, i, [x |-> x1, y |-> y1], 1)]

\* moveSprite; nx, ny are dx, dy before scaling by 1 / den
moveSprite(sp, i, nx, ny, den, stats) ==
  LET s == sp[i]
      newX == s.pos.x + RoundDiv(nx, den)
      newY == s.pos.y + RoundDiv(ny, den)
      x1 == IF stats.floats
            THEN (IF ~isWall(newX, s.pos.y) THEN newX ELSE s.pos.x)
            ELSE (IF ~isWall(newX + Sign(nx) * COLLISION_MARGIN, s.pos.y)
                  THEN newX ELSE s.pos.x)
      y1 == IF stats.floats
            THEN (IF ~isWall(x1, newY) THEN newY ELSE s.pos.y)
            ELSE (IF ~isWall(x1, newY + Sign(ny) * COLLISION_MARGIN)
                  THEN newY ELSE s.pos.y)
  IN [sp EXCEPT ![i].pos = Separate(sp, i, [x |-> x1, y |-> y1], 1)]

NoTurn == [x |-> 0, y |-> 0]

\* updateIdle that notices the player only within half the radius
updateIdle_halfRadius(sp, i, canSeePlayer, dsq, dt, stats, turn) ==
  IF canSeePlayer /\ 4 * dsq < AwarenessRadius * AwarenessRadius
  THEN [sp EXCEPT ![i].state = "chase"]
  ELSE sp

\* updateIdle; turn is the random new direction, NoTurn when
\* Math.random() >= 0.01
updateIdle(sp, i, canSeePlayer, dsq, dt, stats, turn) ==
  IF canSeePlayer /\ dsq < AwarenessRadius * AwarenessRadius
  THEN [sp EXCEPT ![i].state = "chase"]
  ELSE LET sp1 == IF turn # NoTurn THEN [sp EXCEPT ![i].dir = turn] ELSE sp
           d == sp1[i].dir
       IN moveSprite(sp1, i, d.x * stats.speed * dt * 2, d.y * stats.speed * dt * 2,
                     10000000, stats)

\* Math.sin(Date.now() / 500) > 0 ? 1 : -1
strafeDir(t) ==
  LET phase == (t * 100) % 314159
  IN IF phase > 0 /\ phase < 157080 THEN 1 ELSE -1

\* updateChase whose range test is inverted
updateChase_inverted(sp, pl, i, canSeePlayer, dsq, dt, stats, t) ==
  IF dsq > stats.attackRange * stats.attackRange
  THEN [sp EXCEPT ![i].state = "attack"]
  ELSE sp

\* updateChase whose range test is <= instead of <
updateChase_inclusive(sp, pl, i, canSeePlayer, dsq, dt, stats, t) ==
  IF dsq <= stats.attackRange * stats.attackRange
  THEN [sp EXCEPT ![i].state = "attack"]
  ELSE IF ~canSeePlayer /\ t - sp[i].lastSeen > ForgetTimeout
  THEN [sp EXCEPT ![i].state = "idle"]
  ELSE IF /\ sp[i].type = "cacodemon" /\ canSeePlayer
          /\ 4 * dsq < 9 * stats.attackRange * stats.attackRange
  THEN [sp EXCEPT ![i].state = "attack"]
  ELSE sp

\* updateChase
updateChase(sp, pl, i, canSeePlayer, dsq, dt, stats, t) ==
  LET s == sp[i]
  IN IF dsq < stats.attackRange * stats.attackRange
     THEN [sp EXCEPT ![i].state = "attack"]
     ELSE IF ~canSeePlayer /\ t - s.lastSeen > ForgetTimeout
     THEN [sp EXCEPT ![i].state = "idle"]
     ELSE IF /\ s.type = "cacodemon" /\ canSeePlayer
             /\ 4 * dsq < 9 * stats.attackRange * stats.attackRange
     THEN LET k == stats.speed * dt * strafeDir(t)
              moved == moveSprite(sp, i, -s.dir.y * k, s.dir.x * k, 2000000, stats)
          IN [moved EXCEPT ![i].state = "attack"]
     ELSE LET target == IF canSeePlayer THEN pl.pos ELSE s.lastSeenPos
              dx == target.x - s.pos.x
              dy == target.y - s.pos.y
              d2 == dx * dx + dy * dy
          IN IF d2 * 100 > U * U
             THEN LET dist == ISqrt(d2 * 100)
                      nd == [x |-> RoundDiv(dx * 10 * D, dist),
                             y |-> RoundDiv(dy * 10 * D, dist)]
                      sp1 == [sp EXCEPT ![i].dir = nd]
                  IN moveSprite(sp1, i, nd.x * stats.speed * dt, nd.y * stats.speed * dt,
                                1000000, stats)
             ELSE sp

\* hurt without the clamp of the health at 0
hurt_noClamp(pl, damage) ==
  [pl EXCEPT !.health = pl.health - damage,
             !.isDead = (pl.health - damage <= 0)]

\* the player after taking damage from a hostile
hurt(pl, damage) ==
  [pl EXCEPT !.health = Max(0, pl.health - damage),
             !.isDead = (Max(0, pl.health - damage) <= 0)]

\* updateAttack that gives up at the attack range instead of 1.5 x
updateAttack_noFactor(sp, pl, i, dsq, stats) ==
  IF dsq > stats.attackRange * stats.attackRange
  THEN [sprites |-> [sp EXCEPT ![i].state = "chase"], player |-> pl]
  ELSE IF sp[i].attackCooldown <= 0
  THEN [sprites |-> [sp EXCEPT ![i].attackCooldown = stats.attackCooldown],
        player |-> IF ~pl.isDead THEN hurt(pl, stats.damage) ELSE pl]
  ELSE [sprites |-> sp, player |-> pl]

\* updateAttack that does not wait for the cooldown
updateAttack_noCooldown(sp, pl, i, dsq, stats) ==
  IF 4 * dsq > 9 * stats.attackRange * stats.attackRange
  THEN [sprites |-> [sp EXCEPT ![i].state = "chase"], player |-> pl]
  ELSE [sprites |-> [sp EXCEPT ![i].attackCooldown = stats.attackCooldown],
        player |-> IF ~pl.isDead THEN hurt(pl, stats.damage) ELSE pl]

\* updateAttack whose ranged attack does not test the line of sight
updateAttack_blind(sp, pl, i, dsq, stats) ==
  IF 4 * dsq > 9 * stats.attackRange * stats.attackRange
  THEN [sprites |-> [sp EXCEPT ![i].state = "chase"], player |-> pl]
  ELSE IF sp[i].attackCooldown <= 0
  THEN [sprites |-> [sp EXCEPT ![i].attackCooldown = stats.attackCooldown],
        player |-> IF pl.isDead THEN pl
                   ELSE IF stats.projectileDamage # 0 /\ dsq > MeleeLimit * MeleeLimit
                   THEN hurt(pl, stats.projectileDamage)
                   ELSE hurt(pl, stats.damage)]
  ELSE [sprites |-> sp, player |-> pl]

\* updateAttack: the result is the sprites and the player
updateAttack(sp, pl, i, dsq, stats) ==
  LET s == sp[i]
  IN IF 4 * dsq > 9 * stats.attackRange * stats.attackRange
     THEN [sprites |-> [sp EXCEPT ![i].state = "chase"], player |-> pl]
     ELSE IF s.attackCooldown <= 0
     THEN LET pl1 == IF stats.projectileDamage # 0 /\ dsq > MeleeLimit * MeleeLimit
                     THEN (IF ~pl.isDead /\ hasLineOfSight(s.pos, pl.pos)
                           THEN hurt(pl, stats.projectileDamage) ELSE pl)
                     ELSE (IF ~pl.isDead THEN hurt(pl, stats.damage) ELSE pl)
          IN [sprites |-> [sp EXCEPT ![i].attackCooldown = stats.attackCooldown],
              player |-> pl1]
     ELSE [sprites |-> sp, player |-> pl]

\* updatePain that resumes in "attack"
updatePain_toAttack(sp, i, dt) ==
  LET cd == sp[i].attackCooldown - dt
  IN [sp EXCEPT ![i].attackCooldown = cd,
                ![i].state = IF cd <= 0 THEN "attack" ELSE @]

\* updatePain
updatePain(sp, i, dt) ==
  LET cd == sp[i].attackCooldown - dt
  IN [sp EXCEPT ![i].attackCooldown = cd,
                ![i].state = IF cd <= 0 THEN "chase" ELSE @]

\* the state machine of updateEnemy
stateMachine(sp1, pl, i, canSeePlayer, dsq, dt, stats, t, turn) ==
  CASE sp1[i].state = "idle" ->
         [sprites |-> updateIdle(sp1, i, canSeePlayer, dsq, dt, stats, turn), player |-> pl]
    [] sp1[i].state = "chase" ->
         [sprites |-> updateChase(sp1, pl, i, canSeePlayer, dsq, dt, stats, t), player |-> pl]
    [] sp1[i].state = "attack" -> updateAttack(sp1, pl, i, dsq, stats)
    [] sp1[i].state = "pain" -> [sprites |-> updatePain(sp1, i, dt), player |-> pl]
    [] OTHER -> [sprites |-> sp1, player |-> pl]

\* the bookkeeping of updateEnemy: the cooldown and the last sighting
seen(sp, pl, i, dt, t, canSeePlayer) ==
  [sp EXCEPT ![i].attackCooldown = IF @ > 0 THEN @ - dt ELSE @,
             ![i].lastSeen = IF canSeePlayer THEN t ELSE @,
             ![i].lastSeenPos = IF canSeePlayer THEN pl.pos ELSE @]

\* the result r of the state machine with what the hostile saw
Report(r, ran, canSeePlayer, dsq, cd) ==
  [sprites |-> r.sprites, player |-> r.player, ran |-> ran,
   canSee |-> canSeePlayer, dsq |-> dsq, cd |-> cd]

\* updateEnemy of a live hostile that sees the player or not
think(sp, pl, i, dt, t, turn, canSeePlayer, ran) ==
  Report(stateMachine(seen(sp, pl, i, dt, t, canSeePlayer), pl, i, canSeePlayer,
                      Dist2(sp[i].pos, pl.pos), dt, ENEMY_STATS[sp[i].type], t, turn),
         ran, canSeePlayer, Dist2(sp[i].pos, pl.pos),
         IF sp[i].attackCooldown > 0 THEN sp[i].attackCooldown - dt
         ELSE sp[i].attackCooldown)

Skipped(sp, pl) ==
  [sprites |-> sp, player |-> pl, ran |-> FALSE, canSee |-> FALSE, dsq |-> 0, cd |-> 0]

\* updateEnemy whose test for dead hostiles comes after the bookkeeping
updateEnemy_lateDeadCheck(sp, pl, i, dt, t, turn) ==
  IF sp[i].type \notin EnemyKinds
  THEN Skipped(sp, pl)
  ELSE think(sp, pl, i, dt, t, turn, hasLineOfSight(sp[i].pos, pl.pos),
             sp[i].state # "dead")

\* updateEnemy: the result is the sprites and the player, with what the
\* hostile saw (ran: the hostile was not dead)
updateEnemy(sp, pl, i, dt, t, turn) ==
  IF sp[i].state = "dead" \/ sp[i].type \notin EnemyKinds
  THEN Skipped(sp, pl)
  ELSE think(sp, pl, i, dt, t, turn, hasLineOfSight(sp[i].pos, pl.pos), TRUE)

\* what the update of sprite i saw and did (observation for the properties)
LogEntry(before, pl, r, i) ==
  [ pre |-> before[i].state, post |-> r.sprites[i].state,
    ran |-> r.ran, canSee |-> r.canSee, dsq |-> r.dsq, cd |-> r.cd,
    cd0 |-> before[i].attackCooldown, cdAfter |-> r.sprites[i].attackCooldown,
    hp0 |-> pl.health, hp1 |-> r.player.health, dead0 |-> pl.isDead,
    pos0 |-> before[i].pos, pos1 |-> r.sprites[i].pos,
    dir0 |-> before[i].dir, dir1 |-> r.sprites[i].dir ]

RECURSIVE UpdateFrom(_, _, _, _, _, _, _)

\* the loop of SpriteManager.update after sprite i, r = the result of its
\* update
Updated(sp, pl, lg, i, dt, t, turns, r) ==
  UpdateFrom(r.sprites, r.player, Append(lg, LogEntry(sp, pl, r, i)), i + 1, dt, t, turns)

\* the loop of SpriteManager.update from sprite i on
UpdateFrom(sp, pl, lg, i, dt, t, turns) ==
  IF i > Len(sp) THEN [sprites |-> sp, player |-> pl, log |-> lg]
  ELSE Updated(sp, pl, lg, i, dt, t, turns,
               IF isPickup(sp[i].type) \/ sp[i].type = "corpse" \/ sp[i].type = "gib"
               THEN Skipped(sp, pl)
               ELSE updateEnemy(sp, pl, i, dt, t, turns[i]))

\* SpriteManager.update
update(sp, pl, dt, t, turns) == UpdateFrom(sp, pl, <<>>, 1, dt, t, turns)

\* RESPAWN_DELAY, ms
RESPAWN_DELAY == 30000

\* the distance below which checkPickups takes a pickup, hundredths
PickupRadius == 50

\* checkPickups: the player can use the pickup of this type
pickedUp(pl, type) ==
  IF type = "health" THEN pl.health < 100
  ELSE IF type = "armor" THEN pl.armor < 100
  ELSE TRUE

\* checkPickups: the player after taking the pickup of this type
taken(pl, type) ==
  IF type = "health" THEN [pl EXCEPT !.health = Min(100, @ + 25)]
  ELSE IF type = "armor" THEN [pl EXCEPT !.armor = Min(100, @ + 25)]
  ELSE IF type = "ammo_bullets" THEN [pl EXCEPT !.ammo.bullets = @ + 20]
  ELSE IF type = "ammo_shells" THEN [pl EXCEPT !.ammo.shells = @ + 8]
  ELSE IF type = "ammo_rockets" THEN [pl EXCEPT !.ammo.rockets = @ + 5]
  ELSE IF type = "ammo_cells" THEN [pl EXCEPT !.ammo.cells = @ + 40]
  ELSE [pl EXCEPT !.ammo.fuel = @ + 50]

\* sprites.splice(i, 1)
splice(sp, i) == [k \in 1..(Len(sp) - 1) |-> IF k < i THEN sp[k] ELSE sp[k + 1]]

\* the entry checkPickups puts on the respawn queue for the pickup s
RespawnEntry(s, t) ==
  [spawn |-> [x |-> s.pos.x \div U, y |-> s.pos.y \div U, type |-> s.type],
   respawnTime |-> t + RESPAWN_DELAY]

RECURSIVE checkPickupsFrom(_, _, _, _, _)
\* the loop of checkPickups from sprite i down to the first
checkPickupsFrom(sp, pl, queue, t, i) ==
  IF i < 1 THEN [sprites |-> sp, player |-> pl, queue |-> queue]
  ELSE IF /\ isPickup(sp[i].type)
          /\ Dist2(sp[i].pos, pl.pos) < PickupRadius * PickupRadius
          /\ pickedUp(pl, sp[i].type)
  THEN checkPickupsFrom(splice(sp, i), taken(pl, sp[i].type),
                        Append(queue, RespawnEntry(sp[i], t)), t, i - 1)
  ELSE checkPickupsFrom(sp, pl, queue, t, i - 1)

\* SpriteManager.checkPickups at Date.now() = t
checkPickups(sp, pl, queue, t) == checkPickupsFrom(sp, pl, queue, t, Len(sp))

RECURSIVE respawnFrom_requeued(_, _, _, _, _)
\* a respawn loop that leaves the entry of a respawned pickup on the queue
respawnFrom_requeued(sp, queue, t, nextId, i) ==
  IF i < 1 THEN [sprites |-> sp, queue |-> queue, nextId |-> nextId]
  ELSE IF t >= queue[i].respawnTime
  THEN respawnFrom_requeued(Append(sp, createSprite(queue[i].spawn, nextId)), queue, t,
                            nextId + 1, i - 1)
  ELSE respawnFrom_requeued(sp, queue, t, nextId, i - 1)

RECURSIVE respawnFrom(_, _, _, _, _)
\* the respawn loop of SpriteManager.update from queue entry i down to the
\* first: a pickup that is due is created anew and pushed
respawnFrom(sp, queue, t, nextId, i) ==
  IF i < 1 THEN [sprites |-> sp, queue |-> queue, nextId |-> nextId]
  ELSE IF t >= queue[i].respawnTime
  THEN respawnFrom(Append(sp, createSprite(queue[i].spawn, nextId)), splice(queue, i), t,
                   nextId + 1, i - 1)
  ELSE respawnFrom(sp, queue, t, nextId, i - 1)

\* the pickup respawns at the end of SpriteManager.update
respawn(sp, queue, t, nextId) == respawnFrom(sp, queue, t, nextId, Len(queue))

(***************************************************************************)
(* Game modes, online lobby and session tracking (main.ts, network.ts)     *)
(* app is the state of main.ts outside the game proper and of the          *)
(* NetworkManager.  The peer and its connection are the environment: they  *)
(* open, accept a guest and close when they choose.  A peer that           *)
(* disconnect() has destroyed, or that hostGame or joinGame has replaced,  *)
(* raises no further event.  Times are in ms on the clock of now.          *)
(***************************************************************************)
\* the delay of the timer that handleConnectionChange sets, ms
StartDelay == 500

\* the play time above which endSession records a session, ms
MinSession == 5000

\* the length of a room code
CodeLength == 4

\* the last option of the main menu
LastOption == 4

\* most timers pending at once
MaxTimers == 2

\* time explored, ms
AppHorizon == 6500

\* number of keys pressed in a run
MaxKeys == 6

\* the time that passes between two events, ms
AppTicks == {StartDelay, 6000}

\* the keys pressed; KeyA stands for any character of a room code
AppKeys == {"Escape", "Enter", "ArrowUp", "ArrowDown", "KeyH", "KeyP", "KeyA", "Backspace"}

\* the modes in which the game proper runs
InGame(mode) == mode \in {"single", "multi", "online"}

\* main.ts and the NetworkManager once the page is loaded and a user name is
\* set.  peer: "none", "opening", "open"; connection: "none", "dialing" (the
\* guest's connection before it opens, this.connection still null),
\* "accepted" (the host's connection before it opens), "open", "closed".
\* timers: the times at which the pending startOnlineGame timers are due.
\* records: the sessions given to recordGameSession, each with the time of
\* the call.  Observations: began, the time of the last startGame or
\* startOnlineGame; left, Escape has called disconnect() and left the lobby
\* or the online game and neither hostGame nor joinGame has been called
\* since.
AppStart ==
  [ gameMode |-> "menu", menuSelection |-> 0,
    menuUpPressed |-> FALSE, menuDownPressed |-> FALSE, menuSelectPressed |-> FALSE,
    isPaused |-> FALSE, joinCode |-> 0, lobbyStatus |-> "",
    sessionStartTime |-> 0,
    peer |-> "none", isHost |-> FALSE, connection |-> "none",
    timers |-> <<>>, records |-> <<>>,
    began |-> 0, left |-> FALSE ]

\* endSession at time t with the kill count kills
endSession(a, t, kills) ==
  IF a.sessionStartTime = 0 THEN a
  ELSE IF t - a.sessionStartTime > MinSession
  THEN [a EXCEPT !.records = Append(@, [kills |-> kills,
                                          timePlayed |-> t - a.sessionStartTime,
                                          mode |-> IF a.gameMode \in {"single", "multi"}
                                                   THEN a.gameMode ELSE "online",
                                          at |-> t]),
                 !.sessionStartTime = 0]
  ELSE [a EXCEPT !.sessionStartTime = 0]

\* startGame(mode) at time t
startGame(a, mode, t) ==
  [a EXCEPT !.gameMode = mode, !.sessionStartTime = t, !.began = t]

\* startOnlineGame at time t
startOnlineGame(a, t) ==
  [a EXCEPT !.gameMode = "online", !.sessionStartTime = t, !.began = t]

\* handleConnectionChange at time t
handleConnectionChange(a, connected, error, t, kills) ==
  IF connected
  THEN [a EXCEPT !.lobbyStatus = "Connected!", !.timers = Append(@, t + StartDelay)]
  ELSE IF a.gameMode = "online"
  THEN [endSession([a EXCEPT !.lobbyStatus = error], t, kills) EXCEPT !.gameMode = "menu"]
  ELSE [a EXCEPT !.lobbyStatus = error]

\* NetworkManager.hostGame up to the creation of the peer; a connection the
\* replaced peer was dialing is lost with it
hostGame(a) ==
  [a EXCEPT !.isHost = TRUE, !.peer = "opening", !.left = FALSE,
            !.connection = IF @ = "dialing" THEN "none" ELSE @]

\* NetworkManager.joinGame up to the creation of the peer
joinGame(a) ==
  [a EXCEPT !.isHost = FALSE, !.peer = "opening", !.left = FALSE,
            !.connection = IF @ = "dialing" THEN "none" ELSE @]

\* startHosting up to its await
startHosting(a) ==
  hostGame([a EXCEPT !.gameMode = "lobby_host", !.lobbyStatus = "Creating room..."])

\* NetworkManager.disconnect
disconnect(a) == [a EXCEPT !.connection = "none", !.peer = "none"]

\* NetworkManager.setupConnection at time t: the handlers are set and the
\* callback is told of the connection
setupConnection(a, t, kills) == handleConnectionChange(a, TRUE, "", t, kills)

\* the keydown listener in the modes of the game proper
inGameKey(a, code, t, kills) ==
  IF (code = "KeyP" \/ code = "Escape") /\ a.gameMode = "single"
  THEN [a EXCEPT !.isPaused = ~@]
  ELSE IF a.isPaused THEN a
  ELSE IF code = "KeyH" THEN [a EXCEPT !.isPaused = FALSE, !.gameMode = "tutorial"]
  ELSE IF code = "Escape"
  THEN LET e == endSession(a, t, kills)
           d == IF e.gameMode = "online" THEN [disconnect(e) EXCEPT !.left = TRUE] ELSE e
       IN [d EXCEPT !.isPaused = FALSE, !.gameMode = "menu"]
  ELSE a

\* the keydown listener of main.ts at time t
keydown(a, code, t, kills) ==
  IF a.gameMode = "menu"
  THEN IF code = "ArrowUp" THEN [a EXCEPT !.menuUpPressed = TRUE]
       ELSE IF code = "ArrowDown" THEN [a EXCEPT !.menuDownPressed = TRUE]
       ELSE IF code = "Enter" THEN [a EXCEPT !.menuSelectPressed = TRUE]
       ELSE IF code = "KeyH" THEN [a EXCEPT !.gameMode = "tutorial"]
       ELSE a
  ELSE IF a.gameMode = "lobby_join"
  THEN IF code = "Escape"
       THEN [a EXCEPT !.gameMode = "menu", !.joinCode = 0, !.lobbyStatus = ""]
       ELSE IF code = "Enter" /\ a.joinCode = CodeLength
       THEN joinGame([a EXCEPT !.lobbyStatus = "Connecting..."])
       ELSE IF code = "Backspace" THEN [a EXCEPT !.joinCode = IF @ > 0 THEN @ - 1 ELSE 0]
       ELSE IF code = "KeyA" /\ a.joinCode < CodeLength THEN [a EXCEPT !.joinCode = @ + 1]
       ELSE a
  ELSE IF a.gameMode = "lobby_host"
  THEN IF code = "Escape"
       THEN [disconnect(a) EXCEPT !.gameMode = "menu", !.lobbyStatus = "", !.left = TRUE]
       ELSE a
  ELSE IF a.gameMode = "tutorial"
  THEN IF code \in {"Enter", "KeyH", "Escape"} THEN [a EXCEPT !.gameMode = "menu"] ELSE a
  ELSE IF a.gameMode = "shop"
  THEN IF code = "Escape" THEN [a EXCEPT !.gameMode = "menu"] ELSE a
  ELSE inGameKey(a, code, t, kills)

\* gameLoop in the menu at time t: the keys pressed since the last frame
menu(a, t) ==
  LET up == IF a.menuUpPressed
            THEN [a EXCEPT !.menuSelection = IF @ > 0 THEN @ - 1 ELSE 0,
                           !.menuUpPressed = FALSE]
            ELSE a
      down == IF up.menuDownPressed
              THEN [up EXCEPT !.menuSelection = IF @ < LastOption THEN @ + 1 ELSE LastOption,
                              !.menuDownPressed = FALSE]
              ELSE up
      sel == [down EXCEPT !.menuSelectPressed = FALSE]
  IN IF ~down.menuSelectPressed THEN down
     ELSE IF sel.menuSelection = 0 THEN startGame(sel, "single", t)
     ELSE IF sel.menuSelection = 1 THEN startGame(sel, "multi", t)
     ELSE IF sel.menuSelection = 2 THEN startHosting(sel)
     ELSE IF sel.menuSelection = 3
     THEN [sel EXCEPT !.gameMode = "lobby_join", !.joinCode = 0, !.lobbyStatus = ""]
     ELSE [sel EXCEPT !.gameMode = "shop"]

\* main.ts in a single-player game started when the level was loaded: the
\* state of the specifications of the game proper
Playing == startGame(AppStart, "single", Epoch)

(***************************************************************************)
(* Levels and inputs of the model (bounds)                                 *)
(***************************************************************************)
\* the games the model starts from: the spawn list given to spawnSprites
\* (cells, as in SPRITE_SPAWNS), the place and direction of the player
\* (hundredths and thousandths, as in SPAWN_POINTS) and the health the
\* player has left.  checkPickups finds no pickup within 0.5 of the player
\* in these games.
Scenarios ==
  { \* a pickup and an imp one cell ahead, a demon behind them, player facing them
    [ spawns |-> << [x |-> 1, y |-> 2, type |-> "health"],
                    [x |-> 1, y |-> 2, type |-> "imp"],
                    [x |-> 1, y |-> 3, type |-> "demon"] >>,
      start |-> [x |-> 150, y |-> 150, dirX |-> 0, dirY |-> 1000],
      health |-> 100 ],
    \* an imp exactly 12 units ahead, a demon inside the red room next to it
    [ spawns |-> << [x |-> 6, y |-> 3, type |-> "imp"],
                    [x |-> 6, y |-> 5, type |-> "demon"] >>,
      start |-> [x |-> 1850, y |-> 350, dirX |-> -1000, dirY |-> 0],
      health |-> 100 ],
    \* a cacodemon 11.9 units ahead
    [ spawns |-> << [x |-> 1, y |-> 1, type |-> "cacodemon"] >>,
      start |-> [x |-> 1340, y |-> 150, dirX |-> -1000, dirY |-> 0],
      health |-> 100 ],
    \* an imp outside the red room that sees the player in it past the
    \* corner of the doorway
    [ spawns |-> << [x |-> 6, y |-> 9, type |-> "imp"] >>,
      start |-> [x |-> 720, y |-> 750, dirX |-> -1000, dirY |-> 0],
      health |-> 100 ],
    \* an imp within its attack range of the player
    [ spawns |-> << [x |-> 1, y |-> 1, type |-> "imp"] >>,
      start |-> [x |-> 265, y |-> 150, dirX |-> -1000, dirY |-> 0],
      health |-> 100 ],
    \* an imp exactly at its attack range
    [ spawns |-> << [x |-> 1, y |-> 1, type |-> "imp"] >>,
      start |-> [x |-> 270, y |-> 150, dirX |-> -1000, dirY |-> 0],
      health |-> 100 ],
    \* a baron within its attack range of a player with 10 health left
    [ spawns |-> << [x |-> 1, y |-> 1, type |-> "baron"] >>,
      start |-> [x |-> 300, y |-> 150, dirX |-> -1000, dirY |-> 0],
      health |-> 10 ],
    \* a cacodemon outside the red room that sees the player in it past the
    \* corner of the doorway
    [ spawns |-> << [x |-> 6, y |-> 9, type |-> "cacodemon"] >>,
      start |-> [x |-> 720, y |-> 750, dirX |-> -1000, dirY |-> 0],
      health |-> 100 ] }

\* the input states of a frame
Inputs ==
  { NoInput,
    [NoInput EXCEPT !.backward = TRUE],
    [NoInput EXCEPT !.fire = TRUE] }

\* random new directions of an idle hostile
WanderDirs == { [x |-> 0, y |-> -1000] }

\* the frame time limit of gameLoop, ms
MaxDelta == 100

\* a frame time capped at twice the limit
deltaTime_cap200(gap) == Min(gap, 2 * MaxDelta)

\* gameLoop: the deltaTime of a frame that comes gap ms after the last one
deltaTime(gap) == Min(gap, MaxDelta)

(***************************************************************************)
(* State machine                                                           *)
(***************************************************************************)
Init ==
  \E sc \in Scenarios :
    /\ sprites = spawnSprites(sc.spawns)
    /\ player = [createPlayer(sc.start) EXCEPT !.health = sc.health]
    /\ weapon = createWeapon
    /\ killCount = 0
    /\ now = Epoch
    /\ frame = 0
    /\ events = 0
    /\ log = <<>>
    /\ shot = NoShot
    /\ seenAgo = [i \in 1..Len(sc.spawns) |-> -1]
    /\ sinceAttack = [i \in 1..Len(sc.spawns) |-> -1]
    /\ app = Playing
    /\ exposed = [i \in 1..Len(sc.spawns) |-> FALSE]
    /\ nextSpriteId = Len(sprites) + 1
    /\ respawnQueue = <<>>
    /\ projectiles = <<>>
    /\ probe = NoProbe

\* an idle hostile draws Math.random() only when it does not notice the player
Wanders(sp, pl, i) ==
  /\ isEnemy(sp[i].type) /\ sp[i].state = "idle"
  /\ ~(Dist2(sp[i].pos, pl.pos) < AwarenessRadius * AwarenessRadius
       /\ hasLineOfSight(sp[i].pos, pl.pos))

\* the number of events a frame draws from the event budget: an input, a
\* stalled frame, each random turn, each nonzero spread
Cost(gap, input, turns, angles) ==
  (IF input # NoInput THEN 1 ELSE 0) + (IF gap > MaxDelta THEN 1 ELSE 0)
  + Cardinality({i \in DOMAIN turns : turns[i] # NoTurn})
  + Cardinality({k \in DOMAIN angles : angles[k] # 0})

\* the end of a frame: input the keys held, w is the result of updateWeapon,
\* u of the update
Commit(gap, input, cost, w, u) ==
  /\ now' = now + gap
  /\ frame' = frame + 1
  /\ events' = events + cost
  /\ weapon' = w.weapon
  /\ killCount' = killCount + w.kills
  /\ shot' = w.shot
  /\ sprites' = u.sprites
  /\ player' = u.player
  /\ log' = u.log
  /\ seenAgo' = [i \in 1..Len(sprites) |->
                   IF ~u.log[i].ran THEN seenAgo[i]
                   ELSE IF u.log[i].canSee THEN 0
                   ELSE IF seenAgo[i] < 0 THEN seenAgo[i]
                   ELSE seenAgo[i] + deltaTime(gap)]
  /\ sinceAttack' = [i \in 1..Len(sprites) |->
                       IF u.log[i].ran /\ u.log[i].hp1 < u.log[i].hp0 THEN 0
                       ELSE IF sinceAttack[i] < 0 THEN sinceAttack[i]
                       ELSE sinceAttack[i] + deltaTime(gap)]
  /\ UNCHANGED app
  /\ exposed' = [i \in 1..Len(sprites) |->
                   \/ exposed[i]
                   \/ /\ u.log[i].ran
                      /\ \/ u.log[i].canSee
                         \/ u.log[i].dsq <= AwarenessRadius * AwarenessRadius]
  /\ probe' = [kind |-> "frame", gap |-> gap, from |-> player.pos,
               cooldown |-> weapon.cooldown, input |-> input]
  /\ UNCHANGED <<nextSpriteId, respawnQueue, projectiles>>

\* the random turns of the frame: tf maps the wandering hostiles to theirs
Turns(n, tf) == [i \in 1..n |-> IF i \in DOMAIN tf THEN tf[i] ELSE NoTurn]

\* SpriteManager.update in gameLoop, with the turns the hostiles draw
Update(gap, input, angles, w, turns) ==
  /\ events + Cost(gap, input, turns, angles) <= MaxEvents
  /\ Commit(gap, input, Cost(gap, input, turns, angles), w,
            update(w.sprites, w.player, deltaTime(gap), now + gap, turns))

\* gameLoop after updateWeapon
GameLoop(gap, input, angles, w) ==
  \E tf \in [{i \in 1..Len(sprites) : Wanders(w.sprites, w.player, i)}
               -> WanderDirs \cup {NoTurn}] :
    Update(gap, input, angles, w, Turns(Len(sprites), tf))

\* one frame of gameLoop in a running single-player game: the frame time,
\* updatePlayer, updateWeapon, SpriteManager.update
Frame ==
  /\ frame < MaxFrames
  /\ \E gap \in FrameGaps, input \in Inputs :
       \E angles \in [1..RayCount(weapon.type) ->
                        IF ~input.fire THEN {0}
                        ELSE IF weapon.type = "flamethrower" THEN SpreadAngles
                        ELSE PelletAngles] :
         /\ events + Cost(gap, input, <<>>, angles) <= MaxEvents
         /\ GameLoop(gap, input, angles,
                     updateWeapon(weapon, deltaTime(gap), input.fire,
                                  updatePlayer(player, input, deltaTime(gap)),
                                  sprites, angles))

\* InputManager.onKeyDown of a number key of player 1
KeyDown ==
  \E num \in NumberKeys :
    /\ events < MaxEvents
    /\ weapon' = switchWeaponByNumber(weapon, num)
    /\ events' = events + 1
    /\ UNCHANGED <<sprites, player, killCount, now, frame, log, shot, seenAgo,
                   sinceAttack, app, exposed,
                   probe, nextSpriteId, respawnQueue, projectiles>>

\* InputManager.onWheel: a burst of wheel events between two frames
Wheel ==
  \E n \in WheelNotches :
    /\ events < MaxEvents
    /\ weapon' = onWheel(weapon, player, n)
    /\ events' = events + 1
    /\ UNCHANGED <<sprites, player, killCount, now, frame, log, shot, seenAgo,
                   sinceAttack, app, exposed,
                   probe, nextSpriteId, respawnQueue, projectiles>>

Next == Frame \/ KeyDown \/ Wheel

Spec == Init /\ [][Next]_vars

(***************************************************************************)
(* Explosions among hostiles at arbitrary distances                        *)
(***************************************************************************)
\* the number of shots and explosions of a run
SplashFrames == 2

\* distances from the impact at which the bystanders stand, hundredths
SplashOffsets == {5, 50, 200, 300, 350}

\* the explosions applySplashDamage is called with: radius and damage
Blasts == { [radius |-> 300, damage |-> 50], [radius |-> 300, damage |-> 100],
            [radius |-> 500, damage |-> 200] }

\* a hostile of the given kind that has moved to pos
placed(type, id, pos) ==
  [createSprite([x |-> 0, y |-> 0, type |-> type], id) EXCEPT !.pos = pos]

\* the player in the northern corridor facing east with a splash weapon in
\* hand, a cyberdemon 8.5 units ahead and three barons behind it
SplashInit ==
  \E type \in {"rocket", "bfg"} :
    \E o1, o2, o3 \in SplashOffsets :
      /\ o1 < o2 /\ o2 < o3
      /\ sprites = << placed("cyberdemon", 1, [x |-> 1000, y |-> 250]),
                      placed("baron", 2, [x |-> 1000 + o1, y |-> 250]),
                      placed("baron", 3, [x |-> 1000 + o2, y |-> 250]),
                      placed("baron", 4, [x |-> 1000 + o3, y |-> 250]) >>
      /\ player = createPlayer([x |-> 150, y |-> 250, dirX |-> 1000, dirY |-> 0])
      /\ weapon = [createWeapon EXCEPT !.type = type]
      /\ killCount = 0
      /\ now = Epoch
      /\ frame = 0
      /\ events = 0
      /\ log = <<>>
      /\ shot = NoShot
      /\ seenAgo = [i \in 1..4 |-> -1]
      /\ sinceAttack = [i \in 1..4 |-> -1]
      /\ app = Playing
      /\ exposed = [i \in 1..4 |-> FALSE]
      /\ nextSpriteId = Len(sprites) + 1
      /\ respawnQueue = <<>>
      /\ projectiles = <<>>
      /\ probe = NoProbe

\* the end of updateWeapon with the fire button held: w is its result
Shot(w) ==
  /\ weapon' = w.weapon
  /\ player' = w.player
  /\ sprites' = w.sprites
  /\ killCount' = killCount + w.kills
  /\ shot' = w.shot
  /\ now' = now + MaxDelta
  /\ frame' = frame + 1
  /\ UNCHANGED <<events, log, seenAgo,
                 sinceAttack, app, exposed, probe, nextSpriteId, respawnQueue, projectiles>>

\* updateWeapon with the fire button held
Shoot ==
  /\ frame < SplashFrames
  /\ Shot(updateWeapon(weapon, MaxDelta, TRUE, player, sprites,
                       [k \in 1..RayCount(weapon.type) |-> 0]))

\* the end of applySplashDamage: m is the manager state after it
Exploded(b, m) ==
  /\ sprites' = m.sp
  /\ killCount' = killCount + m.kills
  /\ shot' = [NoShot EXCEPT !.splash = <<[center |-> sprites[1].pos, sp |-> sprites,
                                          radius |-> b.radius, damage |-> b.damage]>>,
                            !.calls = m.calls]
  /\ frame' = frame + 1
  /\ UNCHANGED <<player, weapon, now, events, log, seenAgo,
                 sinceAttack, app, exposed, probe, nextSpriteId,
                 respawnQueue, projectiles>>

\* applySplashDamage called at the place of the first hostile
Explode ==
  /\ frame < SplashFrames
  /\ \E b \in Blasts :
       Exploded(b, Splash(NoCalls(sprites), sprites[1].pos, b.radius, b.damage))

SplashNext == Shoot \/ Explode

SplashSpec == SplashInit /\ [][SplashNext]_vars

(***************************************************************************)
(* Hostile attacks and enemy projectiles on the player                     *)
(***************************************************************************)
\* the enemy projectiles that hit the player or explode: damage, splash
\* radius (hundredths)
EnemyShots == { [damage |-> 8, radius |-> 0], [damage |-> 100, radius |-> 300] }

\* where a projectile explodes, relative to the player (hundredths)
ImpactOffsets == { [x |-> -50, y |-> 0], [x |-> -60, y |-> 0], [x |-> 0, y |-> -60] }

\* ProjectileManager.handlePlayerHit
handlePlayerHit(proj, pl) ==
  IF ~pl.isDead THEN hurt(pl, proj.damage) ELSE pl

\* ProjectileManager.handleExplosion of an enemy projectile at pos:
\* Math.floor(proj.damage * falloff * 0.5) for an even proj.damage
handleExplosion(proj, pos, pl) ==
  IF /\ proj.radius > 0 /\ Dist2(pos, pl.pos) < proj.radius * proj.radius
     /\ SplashAmount(Dist2(pos, pl.pos), proj.radius, proj.damage \div 2) > 0
     /\ ~pl.isDead
  THEN hurt(pl, SplashAmount(Dist2(pos, pl.pos), proj.radius, proj.damage \div 2))
  ELSE pl

\* ProjectileManager.update for an enemy projectile that reaches the player
PlayerHit ==
  \E proj \in EnemyShots :
    /\ events < MaxEvents
    /\ player' = handlePlayerHit(proj, player)
    /\ events' = events + 1
    /\ UNCHANGED <<sprites, weapon, killCount, now, frame, log, shot, seenAgo,
                   sinceAttack, app, exposed,
                   probe, nextSpriteId, respawnQueue, projectiles>>

\* ProjectileManager.update for an enemy projectile that reaches a wall
EnemyExplosion ==
  \E proj \in EnemyShots, off \in ImpactOffsets :
    /\ events < MaxEvents
    /\ isWall(player.pos.x + off.x, player.pos.y + off.y)
    /\ player' = handleExplosion(proj, [x |-> player.pos.x + off.x,
                                        y |-> player.pos.y + off.y], player)
    /\ events' = events + 1
    /\ UNCHANGED <<sprites, weapon, killCount, now, frame, log, shot, seenAgo,
                   sinceAttack, app, exposed,
                   probe, nextSpriteId, respawnQueue, projectiles>>

HarmNext == Frame \/ PlayerHit \/ EnemyExplosion

HarmSpec == Init /\ [][HarmNext]_vars

(***************************************************************************)
(* ProjectileManager: speed in hundredths of a unit per second, splash     *)
(* radius in hundredths, life in ms.  The owner of a projectile is 0 for   *)
(* 'player' and the id of the sprite otherwise.                            *)
(***************************************************************************)
PROJECTILE_DEFS ==
  [ fireball  |-> [speed |-> 800, radius |-> 0, life |-> 3000],
    rocket    |-> [speed |-> 1200, radius |-> 300, life |-> 5000],
    plasma    |-> [speed |-> 1500, radius |-> 0, life |-> 2000],
    lightning |-> [speed |-> 1000, radius |-> 0, life |-> 2000],
    bfg_ball  |-> [speed |-> 600, radius |-> 500, life |-> 4000] ]

\* the distance below which a projectile hits the player or a sprite
HitRadius == 50

\* the projectile fire() pushes: the direction is normalised, (1, 0) when
\* its length is 0
launched(type, pos, dir, damage, owner, len) ==
  [ pos |-> pos,
    vel |-> IF len > 0
            THEN [x |-> RoundDiv(dir.x * PROJECTILE_DEFS[type].speed, len),
                  y |-> RoundDiv(dir.y * PROJECTILE_DEFS[type].speed, len)]
            ELSE [x |-> PROJECTILE_DEFS[type].speed, y |-> 0],
    type |-> type,
    damage |-> damage,
    radius |-> PROJECTILE_DEFS[type].radius,
    owner |-> owner,
    life |-> PROJECTILE_DEFS[type].life ]

\* ProjectileManager.fire
fireProjectile(ps, type, pos, dir, damage, owner) ==
  Append(ps, launched(type, pos, dir, damage, owner, ISqrt(dir.x * dir.x + dir.y * dir.y)))

firePlayerRocket(ps, pl) == fireProjectile(ps, "rocket", pl.pos, pl.dir, 100, 0)

firePlayerPlasma(ps, pl) == fireProjectile(ps, "plasma", pl.pos, pl.dir, 25, 0)

firePlayerBFG(ps, pl) == fireProjectile(ps, "bfg_ball", pl.pos, pl.dir, 400, 0)

fireEnemyFireball(ps, pos, target, damage, ownerId) ==
  fireProjectile(ps, "fireball", pos, [x |-> target.x - pos.x, y |-> target.y - pos.y],
                 damage, ownerId)

\* the projectile after its position and life are updated
advance(p, dt) ==
  [p EXCEPT !.pos = [x |-> p.pos.x + RoundDiv(p.vel.x * dt, 1000),
                     y |-> p.pos.y + RoundDiv(p.vel.y * dt, 1000)],
            !.life = @ - dt]

\* the sprites a player's projectile can hit
hittable(s) ==
  /\ s.state # "dead"
  /\ s.type \notin {"health", "armor", "corpse", "gib"}
  /\ s.type \notin {"ammo_bullets", "ammo_shells", "ammo_rockets", "ammo_cells", "ammo_fuel"}

RECURSIVE firstHit_dead(_, _, _)
\* the enemy-hit loop that does not pass over dead sprites
firstHit_dead(sp, pos, i) ==
  IF i > Len(sp) THEN 0
  ELSE IF isEnemy(sp[i].type) /\ Dist2(pos, sp[i].pos) < HitRadius * HitRadius THEN i
  ELSE firstHit_dead(sp, pos, i + 1)

RECURSIVE firstHit(_, _, _)
\* the enemy-hit loop of update from sprite i on: the first sprite within
\* the hit radius, 0 for none
firstHit(sp, pos, i) ==
  IF i > Len(sp) THEN 0
  ELSE IF hittable(sp[i]) /\ Dist2(pos, sp[i].pos) < HitRadius * HitRadius THEN i
  ELSE firstHit(sp, pos, i + 1)

\* handleExplosion on the state st = [ps, m, pl, out] of an update: ps the
\* projectiles, m the sprite manager, pl the player, out what became of
\* the projectiles so far
explosion(st, p) ==
  IF p.radius > 0 /\ p.owner = 0
  THEN [st EXCEPT !.m = Splash(st.m, p.pos, p.radius, p.damage \div 2)]
  ELSE IF p.radius > 0
  THEN [st EXCEPT !.pl = handleExplosion(p, p.pos, st.pl)]
  ELSE st

\* handleEnemyHit whose blast also reaches the player
splashAfterHit_selfHarm(st, p, m1) ==
  [st EXCEPT !.m = IF p.radius > 0 THEN Splash(m1, p.pos, p.radius, p.damage \div 2)
                   ELSE m1,
             !.pl = IF p.radius > 0 THEN handleExplosion(p, p.pos, st.pl) ELSE @]

\* handleEnemyHit on sprite j: m1 is the manager after damageSprite
splashAfterHit(st, p, m1) ==
  [st EXCEPT !.m = IF p.radius > 0 THEN Splash(m1, p.pos, p.radius, p.damage \div 2)
                   ELSE m1]

\* ProjectileManager.handleEnemyHit
handleEnemyHit(st, p, j) == splashAfterHit(st, p, Damage(st.m, j, p.damage))

\* what became of projectile p: the sprites and the player's health before
\* and after
Outcome(how, p, st, st1, target) ==
  [ how |-> how, proj |-> p, target |-> target,
    sp0 |-> st.m.sp, sp1 |-> st1.m.sp, hp0 |-> st.pl.health, hp1 |-> st1.pl.health ]

\* projectiles.splice(i, 1) after the projectile was resolved into st1
removed(st, i, how, p, st1, target) ==
  [st1 EXCEPT !.ps = splice(st.ps, i),
              !.out = Append(st.out, Outcome(how, p, st, st1, target))]

\* the projectile stays in the manager
kept(st, i, p) ==
  [st EXCEPT !.ps[i] = p, !.out = Append(st.out, Outcome("flying", p, st, st, 0))]

\* the end of the loop body for a player's projectile: j is the first
\* sprite within the hit radius
enemyHit(st, i, p, j) ==
  IF j # 0 THEN removed(st, i, "enemy", p, handleEnemyHit(st, p, j), j)
  ELSE kept(st, i, p)

\* the loop body that keeps a projectile whose life is exactly used up
resolve_lateExpiry(st, i, p) ==
  IF isWall(p.pos.x, p.pos.y) THEN removed(st, i, "wall", p, explosion(st, p), 0)
  ELSE IF p.life < 0 THEN removed(st, i, "expired", p, st, 0)
  ELSE IF p.owner # 0
  THEN (IF Dist2(p.pos, st.pl.pos) < HitRadius * HitRadius
        THEN removed(st, i, "player", p, [st EXCEPT !.pl = handlePlayerHit(p, st.pl)], 0)
        ELSE kept(st, i, p))
  ELSE enemyHit(st, i, p, firstHit(st.m.sp, p.pos, 1))

\* the loop body of update for projectile i, p is the projectile moved
resolve(st, i, p) ==
  IF isWall(p.pos.x, p.pos.y) THEN removed(st, i, "wall", p, explosion(st, p), 0)
  ELSE IF p.life <= 0 THEN removed(st, i, "expired", p, st, 0)
  ELSE IF p.owner # 0
  THEN (IF Dist2(p.pos, st.pl.pos) < HitRadius * HitRadius
        THEN removed(st, i, "player", p, [st EXCEPT !.pl = handlePlayerHit(p, st.pl)], 0)
        ELSE kept(st, i, p))
  ELSE enemyHit(st, i, p, firstHit(st.m.sp, p.pos, 1))

RECURSIVE updateProjectilesFrom(_, _, _)
\* the loop of ProjectileManager.update from projectile i down to the first
updateProjectilesFrom(st, dt, i) ==
  IF i < 1 THEN st
  ELSE updateProjectilesFrom(resolve(st, i, advance(st.ps[i], dt)), dt, i - 1)

\* ProjectileManager.update(deltaTime, player, spriteManager)
updateProjectiles(ps, dt, pl, sp) ==
  updateProjectilesFrom([ps |-> ps, m |-> NoCalls(sp), pl |-> pl, out |-> <<>>], dt, Len(ps))

(***************************************************************************)
(* A ProjectileManager used in the northern corridor                       *)
(***************************************************************************)
\* number of calls of the manager in a run
ProjFrames == 7

\* number of projectiles in flight
MaxProjectiles == 2

\* the deltaTime update is called with, ms
ProjDeltas == {100, 1000}

\* the places the player stands at, facing east
ProjStarts == {[x |-> 150, y |-> 250], [x |-> 210, y |-> 250]}

\* an ammunition pickup, a dead imp, a demon and a baron at the same place
\* 3 units east of the first start, an imp one unit further east
ProjSprites ==
  << placed("ammo_bullets", 1, [x |-> 450, y |-> 250]),
     [placed("imp", 2, [x |-> 450, y |-> 250]) EXCEPT !.state = "dead", !.health = 0],
     placed("demon", 3, [x |-> 450, y |-> 250]),
     placed("baron", 4, [x |-> 450, y |-> 250]),
     placed("imp", 5, [x |-> 550, y |-> 250]) >>

ProjInit ==
  \E start \in ProjStarts :
    /\ sprites = ProjSprites
    /\ player = createPlayer([x |-> start.x, y |-> start.y, dirX |-> 1000, dirY |-> 0])
    /\ weapon = createWeapon
    /\ killCount = 1
    /\ now = Epoch
    /\ frame = 0
    /\ events = 0
    /\ log = <<>>
    /\ shot = NoShot
    /\ seenAgo = <<>>
    /\ sinceAttack = <<>>
    /\ app = Playing
    /\ exposed = <<>>
    /\ nextSpriteId = Len(ProjSprites) + 1
    /\ respawnQueue = <<>>
    /\ projectiles = <<>>
    /\ probe = NoProbe

\* a call of the manager that fires: ps is the projectiles after it
Launch(ps) ==
  /\ frame < ProjFrames
  /\ Len(projectiles) < MaxProjectiles
  /\ projectiles' = ps
  /\ frame' = frame + 1
  /\ probe' = [kind |-> "fire"]
  /\ UNCHANGED <<sprites, player, weapon, killCount, now, events, log, shot, seenAgo,
                 sinceAttack, app,
                 exposed, nextSpriteId, respawnQueue>>

\* firePlayerRocket, firePlayerPlasma, firePlayerBFG
FirePlayer ==
  \/ Launch(firePlayerRocket(projectiles, player))
  \/ Launch(firePlayerPlasma(projectiles, player))
  \/ Launch(firePlayerBFG(projectiles, player))

\* fireEnemyFireball from a live hostile at the player
FireEnemy ==
  \E i \in 1..Len(sprites) :
    /\ isEnemy(sprites[i].type) /\ sprites[i].state # "dead"
    /\ ENEMY_STATS[sprites[i].type].projectileDamage > 0
    /\ Launch(fireEnemyFireball(projectiles, sprites[i].pos, player.pos,
                                ENEMY_STATS[sprites[i].type].projectileDamage,
                                sprites[i].id))

\* fire() called with the other kinds of projectile: lightning of the
\* player, a rocket of a hostile
FireOther ==
  \/ Launch(fireProjectile(projectiles, "lightning", player.pos, player.dir, 30, 0))
  \/ Launch(fireProjectile(projectiles, "rocket", sprites[4].pos,
                           [x |-> player.pos.x - sprites[4].pos.x,
                            y |-> player.pos.y - sprites[4].pos.y], 40, sprites[4].id))

\* the end of update: st is its result
Flown(dt, st) ==
  /\ projectiles' = st.ps
  /\ sprites' = st.m.sp
  /\ killCount' = killCount + st.m.kills
  /\ player' = st.pl
  /\ probe' = [kind |-> "update", dt |-> dt, out |-> st.out]
  /\ now' = now + dt
  /\ frame' = frame + 1
  /\ UNCHANGED <<weapon, events, log, shot, seenAgo,
                 sinceAttack, app, exposed, nextSpriteId, respawnQueue>>

\* ProjectileManager.update
Fly ==
  /\ frame < ProjFrames
  /\ \E dt \in ProjDeltas : Flown(dt, updateProjectiles(projectiles, dt, player, sprites))

ProjNext == FirePlayer \/ FireEnemy \/ FireOther \/ Fly

ProjectileSpec == ProjInit /\ [][ProjNext]_vars

(***************************************************************************)
(* The player's projectiles fired at the west wall of the red room         *)
(***************************************************************************)
\* the places the player fires from, in the corridor west of the room
TunnelStarts == {[x |-> 390, y |-> 550], [x |-> 350, y |-> 450]}

\* the directions the player faces: east, south-east
TunnelDirs == {[dirX |-> 1000, dirY |-> 0], [dirX |-> 707, dirY |-> 707]}

\* the deltaTime update is called with, ms: frames of gameLoop
TunnelDeltas == {50, MaxDelta}

TunnelInit ==
  \E start \in TunnelStarts, d \in TunnelDirs :
    /\ sprites = <<>>
    /\ player = createPlayer([x |-> start.x, y |-> start.y,
                              dirX |-> d.dirX, dirY |-> d.dirY])
    /\ weapon = createWeapon
    /\ killCount = 0
    /\ now = Epoch
    /\ frame = 0
    /\ events = 0
    /\ log = <<>>
    /\ shot = NoShot
    /\ seenAgo = <<>>
    /\ sinceAttack = <<>>
    /\ app = Playing
    /\ exposed = <<>>
    /\ nextSpriteId = 1
    /\ respawnQueue = <<>>
    /\ projectiles = <<>>
    /\ probe = NoProbe

\* ProjectileManager.update with the deltaTime of a frame
Glide ==
  /\ frame < ProjFrames
  /\ \E dt \in TunnelDeltas :
       Flown(dt, updateProjectiles(projectiles, dt, player, sprites))

TunnelNext == FirePlayer \/ Glide

TunnelSpec == TunnelInit /\ [][TunnelNext]_vars

(***************************************************************************)
(* Hostiles that have moved close to each other and to a wall              *)
(***************************************************************************)
\* places in empty cells the hostiles have moved to (hundredths), with the
\* place and direction of the player
Crowds ==
  { \* a cacodemon that drifted to the west wall, an imp half a unit east
    [ hostiles |-> << [type |-> "cacodemon", pos |-> [x |-> 105, y |-> 150]],
                      [type |-> "imp", pos |-> [x |-> 155, y |-> 150]] >>,
      start |-> [x |-> 150, y |-> 350, dirX |-> 0, dirY |-> -1000] ],
    \* an imp at its collision margin from the west wall, a demon next to it
    [ hostiles |-> << [type |-> "imp", pos |-> [x |-> 130, y |-> 150]],
                      [type |-> "demon", pos |-> [x |-> 190, y |-> 150]] >>,
      start |-> [x |-> 150, y |-> 350, dirX |-> 0, dirY |-> -1000] ],
    \* the same hostiles out of the player's sight, behind the red room
    [ hostiles |-> << [type |-> "cacodemon", pos |-> [x |-> 105, y |-> 150]],
                      [type |-> "imp", pos |-> [x |-> 155, y |-> 150]] >>,
      start |-> [x |-> 650, y |-> 650, dirX |-> 0, dirY |-> -1000] ] }

CrowdInit ==
  \E c \in Crowds :
    /\ sprites = [i \in 1..Len(c.hostiles) |->
                    placed(c.hostiles[i].type, i, c.hostiles[i].pos)]
    /\ player = createPlayer(c.start)
    /\ weapon = createWeapon
    /\ killCount = 0
    /\ now = Epoch
    /\ frame = 0
    /\ events = 0
    /\ log = <<>>
    /\ shot = NoShot
    /\ seenAgo = [i \in 1..Len(c.hostiles) |-> -1]
    /\ sinceAttack = [i \in 1..Len(c.hostiles) |-> -1]
    /\ app = Playing
    /\ exposed = [i \in 1..Len(c.hostiles) |-> FALSE]
    /\ nextSpriteId = Len(sprites) + 1
    /\ respawnQueue = <<>>
    /\ projectiles = <<>>
    /\ probe = NoProbe

CrowdSpec == CrowdInit /\ [][Frame]_vars

(***************************************************************************)
(* Levels whose spawn list names a kind that ENEMY_STATS does not have     *)
(***************************************************************************)
\* spawn lists given to spawnSprites, with the place of the player
Levels ==
  { [ spawns |-> << [x |-> 5, y |-> 2, type |-> "zombie"] >>,
      start |-> [x |-> 250, y |-> 250, dirX |-> 1000, dirY |-> 0] ],
    [ spawns |-> << [x |-> 5, y |-> 2, type |-> "zombie"],
                    [x |-> 6, y |-> 2, type |-> "imp"] >>,
      start |-> [x |-> 250, y |-> 250, dirX |-> 1000, dirY |-> 0] ],
    [ spawns |-> << [x |-> 6, y |-> 2, type |-> "imp"],
                    [x |-> 6, y |-> 3, type |-> "spectre"] >>,
      start |-> [x |-> 250, y |-> 250, dirX |-> 1000, dirY |-> 0] ] }

LevelInit ==
  \E lv \in Levels :
    /\ sprites = spawnSprites(lv.spawns)
    /\ player = createPlayer(lv.start)
    /\ weapon = createWeapon
    /\ killCount = 0
    /\ now = Epoch
    /\ frame = 0
    /\ events = 0
    /\ log = <<>>
    /\ shot = NoShot
    /\ seenAgo = [i \in 1..Len(lv.spawns) |-> -1]
    /\ sinceAttack = [i \in 1..Len(lv.spawns) |-> -1]
    /\ app = Playing
    /\ exposed = [i \in 1..Len(lv.spawns) |-> FALSE]
    /\ nextSpriteId = Len(sprites) + 1
    /\ respawnQueue = <<>>
    /\ projectiles = <<>>
    /\ probe = NoProbe

LevelSpec == LevelInit /\ [][Frame]_vars

(***************************************************************************)
(* moveWithCollision and moveSprite on single displacements                *)
(***************************************************************************)
\* places around the north-west corner of the red room (hundredths), the
\* ones in empty cells
SlideFrom ==
  { p \in [x : {370, 390, 410, 430}, y : {350, 370, 390, 410, 430}] :
      ~isWall(p.x, p.y) }

\* the displacements dx and dy of a move, hundredths
SlideSteps == {-35, -20, 0, 20, 35}

\* who moves: the player, a walking hostile, a floating hostile
SlideMovers == {"player", "demon", "cacodemon"}

\* the other sprites of the directory: none, or a demon north-west of the
\* places
SlideOthers ==
  { <<>>,
    << [createSprite([x |-> 3, y |-> 3, type |-> "demon"], 2)
          EXCEPT !.pos = [x |-> 330, y |-> 330]] >> }

SlideInit ==
  \E from \in SlideFrom, dx \in SlideSteps, dy \in SlideSteps,
     who \in SlideMovers, others \in SlideOthers :
    /\ player = createPlayer([x |-> from.x, y |-> from.y, dirX |-> 1000, dirY |-> 0])
    /\ sprites = IF who = "player" THEN others
                 ELSE << [createSprite([x |-> 3, y |-> 3, type |-> who], 1)
                            EXCEPT !.pos = from] >> \o others
    /\ weapon = createWeapon
    /\ killCount = 0
    /\ now = Epoch
    /\ frame = 0
    /\ events = 0
    /\ log = <<>>
    /\ shot = NoShot
    /\ seenAgo = <<>>
    /\ sinceAttack = <<>>
    /\ app = Playing
    /\ exposed = <<>>
    /\ nextSpriteId = 3
    /\ respawnQueue = <<>>
    /\ projectiles = <<>>
    /\ probe = [kind |-> "move", who |-> who, from |-> from, dx |-> dx, dy |-> dy]

\* moveWithCollision(player, dx, dy)
SlidePlayer ==
  /\ probe.kind = "move" /\ probe.who = "player"
  /\ player' = moveWithCollision(player, probe.dx, probe.dy, 1)
  /\ probe' = [probe EXCEPT !.kind = "moved"]
  /\ UNCHANGED <<sprites, weapon, killCount, now, frame, events, log, shot,
                 seenAgo, sinceAttack, app, exposed, nextSpriteId, respawnQueue, projectiles>>

\* moveSprite(sprite, dx, dy, stats) of the first sprite of the directory
SlideSprite ==
  /\ probe.kind = "move" /\ probe.who # "player"
  /\ sprites' = moveSprite(sprites, 1, probe.dx, probe.dy, 1, ENEMY_STATS[probe.who])
  /\ probe' = [probe EXCEPT !.kind = "moved"]
  /\ UNCHANGED <<player, weapon, killCount, now, frame, events, log, shot,
                 seenAgo, sinceAttack, app, exposed, nextSpriteId, respawnQueue, projectiles>>

SlideNext == SlidePlayer \/ SlideSprite

SlideSpec == SlideInit /\ [][SlideNext]_vars

(***************************************************************************)
(* The player walking along walls and around corners                       *)
(***************************************************************************)
\* the number of updatePlayer calls of a walk
WalkFrames == 2

\* places in empty cells the walk starts from (hundredths): the north-west
\* corner of the map, the west wall, a corner of the red room, its doorway
WalkStarts ==
  { [x |-> 120, y |-> 120], [x |-> 101, y |-> 399], [x |-> 390, y |-> 390],
    [x |-> 650, y |-> 790] }

\* directions the player faces at the start (thousandths)
WalkDirs ==
  { [dirX |-> 1000, dirY |-> 0], [dirX |-> 707, dirY |-> 707],
    [dirX |-> -707, dirY |-> 707] }

\* the frame times of a walk, ms
WalkDeltas == {50, MaxDelta}

\* every combination of the movement and rotation keys
WalkInputs ==
  { [forward |-> f, backward |-> b, left |-> l, right |-> r,
     strafeLeft |-> sl, strafeRight |-> sr, fire |-> FALSE] :
      f \in BOOLEAN, b \in BOOLEAN, l \in BOOLEAN, r \in BOOLEAN,
      sl \in BOOLEAN, sr \in BOOLEAN }

WalkInit ==
  \E p \in WalkStarts, d \in WalkDirs :
    /\ player = createPlayer([x |-> p.x, y |-> p.y, dirX |-> d.dirX, dirY |-> d.dirY])
    /\ sprites = <<>>
    /\ weapon = createWeapon
    /\ killCount = 0
    /\ now = Epoch
    /\ frame = 0
    /\ events = 0
    /\ log = <<>>
    /\ shot = NoShot
    /\ seenAgo = <<>>
    /\ sinceAttack = <<>>
    /\ app = Playing
    /\ exposed = <<>>
    /\ nextSpriteId = Len(sprites) + 1
    /\ respawnQueue = <<>>
    /\ projectiles = <<>>
    /\ probe = NoProbe

\* updatePlayer with any keys held
Walk ==
  /\ frame < WalkFrames
  /\ \E input \in WalkInputs, dt \in WalkDeltas :
       /\ player' = updatePlayer(player, input, dt)
       /\ now' = now + dt
       /\ frame' = frame + 1
       /\ UNCHANGED <<sprites, weapon, killCount, events, log, shot, seenAgo,
                      sinceAttack, app, exposed,
                      probe, nextSpriteId, respawnQueue, projectiles>>

WalkSpec == WalkInit /\ [][Walk]_vars

(***************************************************************************)
(* The grid queries at coordinates inside and outside the map              *)
(***************************************************************************)
\* the coordinates queried (hundredths): every three quarters of a cell
\* from 1.5 cells before the grid to 0.75 cells after it
GridCoords == {75 * k - 150 : k \in 0..35}

GridInit ==
  /\ sprites = <<>>
  /\ player = createPlayer([x |-> 250, y |-> 250, dirX |-> 1000, dirY |-> 0])
  /\ weapon = createWeapon
  /\ killCount = 0
  /\ now = Epoch
  /\ frame = 0
  /\ events = 0
  /\ log = <<>>
  /\ shot = NoShot
  /\ seenAgo = <<>>
  /\ sinceAttack = <<>>
  /\ app = Playing
  /\ exposed = <<>>
  /\ nextSpriteId = Len(sprites) + 1
  /\ respawnQueue = <<>>
  /\ projectiles = <<>>
  /\ probe = NoProbe

\* isWall and getWallType called with the same coordinates
GridQuery ==
  \E x \in GridCoords, y \in GridCoords :
    /\ probe' = [kind |-> "cell", x |-> x, y |-> y,
                 wall |-> isWall(x, y), type |-> getWallType(x, y)]
    /\ UNCHANGED <<sprites, player, weapon, killCount, now, frame, events, log, shot,
                   seenAgo, sinceAttack, app, exposed, nextSpriteId, respawnQueue, projectiles>>

GridSpec == GridInit /\ [][GridQuery]_vars

(***************************************************************************)
(* Lines of sight between points of the map                                *)
(***************************************************************************)
\* the points a line of sight starts from (hundredths): places where the
\* player or a hostile stands
SightFrom ==
  {<<250, 250>>, <<150, 850>>, <<1150, 1250>>, <<2150, 2150>>, <<720, 750>>, <<390, 390>>}

\* the points a line of sight goes to: every 0.65 cells of the grid
SightCoords == {65 * k + 110 : k \in 0..33}

\* the empty places among them
SightTo == {c \in SightCoords \X SightCoords : ~isWall(c[1], c[2])}

SightInit ==
  /\ sprites = <<>>
  /\ player = createPlayer([x |-> 250, y |-> 250, dirX |-> 1000, dirY |-> 0])
  /\ weapon = createWeapon
  /\ killCount = 0
  /\ now = Epoch
  /\ frame = 0
  /\ events = 0
  /\ log = <<>>
  /\ shot = NoShot
  /\ seenAgo = <<>>
  /\ sinceAttack = <<>>
  /\ app = Playing
  /\ exposed = <<>>
  /\ nextSpriteId = Len(sprites) + 1
  /\ respawnQueue = <<>>
  /\ projectiles = <<>>
  /\ \E f \in SightFrom, t \in SightTo :
       probe = [kind |-> "segment", from |-> [x |-> f[1], y |-> f[2]],
                to |-> [x |-> t[1], y |-> t[2]]]

\* hasLineOfSight called on the segment
Sight ==
  /\ probe.kind = "segment"
  /\ probe' = [kind |-> "sight", from |-> probe.from, to |-> probe.to,
               steps |-> LosSteps(Dist2(probe.from, probe.to)),
               clear |-> hasLineOfSight(probe.from, probe.to)]
  /\ UNCHANGED <<sprites, player, weapon, killCount, now, frame, events, log, shot,
                 seenAgo, sinceAttack, app, exposed, nextSpriteId, respawnQueue, projectiles>>

SightSpec == SightInit /\ [][Sight]_vars

(***************************************************************************)
(* The sprite directory over frames in which pickups are taken and come    *)
(* back.  The cyberdemon's summon is not part of it: ENEMY_STATS has       *)
(* canSummon false, so handleCyberdemonSummon is never called.             *)
(***************************************************************************)
\* number of frames explored
DirFrames == 4

\* gaps between two frame timestamps: a frame, and a loop stalled for
\* RESPAWN_DELAY
DirGaps == {100, 30000}

\* the keys held in a frame
DirInputs ==
  {[NoInput EXCEPT !.forward = f, !.fire = s] : f \in BOOLEAN, s \in BOOLEAN}

\* the level: pickups and a demon one cell east of the player, two imps
\* 11 cells further east in the rows north and south of the player's
DirSpawns ==
  << [x |-> 3, y |-> 2, type |-> "ammo_bullets"],
     [x |-> 14, y |-> 1, type |-> "imp"],
     [x |-> 3, y |-> 2, type |-> "demon"],
     [x |-> 14, y |-> 3, type |-> "imp"],
     [x |-> 3, y |-> 2, type |-> "health"] >>

\* the places the player starts from, facing east
DirStarts == {[x |-> 300, y |-> 250], [x |-> 270, y |-> 250], [x |-> 250, y |-> 250]}

DirInit ==
  \E start \in DirStarts :
    /\ sprites = spawnSprites(DirSpawns)
    /\ player = createPlayer([x |-> start.x, y |-> start.y, dirX |-> 1000, dirY |-> 0])
    /\ weapon = createWeapon
    /\ killCount = 0
    /\ now = Epoch
    /\ frame = 0
    /\ events = 0
    /\ log = <<>>
    /\ shot = NoShot
    /\ seenAgo = <<>>
    /\ sinceAttack = <<>>
    /\ app = Playing
    /\ exposed = <<>>
    /\ nextSpriteId = Len(DirSpawns) + 1
    /\ respawnQueue = <<>>
    /\ projectiles = <<>>
    /\ probe = NoProbe

\* the end of a frame: w is the result of updateWeapon, u of the AI loop of
\* SpriteManager.update, r of its respawns, c of checkPickups
Collected(gap, w, u, r, c) ==
  /\ now' = now + gap
  /\ frame' = frame + 1
  /\ weapon' = w.weapon
  /\ killCount' = killCount + w.kills
  /\ shot' = w.shot
  /\ log' = u.log
  /\ sprites' = c.sprites
  /\ player' = c.player
  /\ respawnQueue' = c.queue
  /\ nextSpriteId' = r.nextId
  /\ probe' = [kind |-> "frame", gap |-> gap, from |-> player.pos,
               cooldown |-> weapon.cooldown]
  /\ UNCHANGED <<events, seenAgo, sinceAttack, app, exposed, projectiles>>

\* gameLoop after the respawns of SpriteManager.update: checkPickups
Respawned(gap, w, u, r) ==
  Collected(gap, w, u, r, checkPickups(r.sprites, u.player, r.queue, now + gap))

\* gameLoop after the AI loop of SpriteManager.update
AiDone(gap, w, u) ==
  Respawned(gap, w, u, respawn(u.sprites, respawnQueue, now + gap, nextSpriteId))

\* gameLoop after updateWeapon; no idle hostile turns
Fired(gap, w) ==
  AiDone(gap, w, update(w.sprites, w.player, deltaTime(gap), now + gap,
                          [i \in 1..Len(w.sprites) |-> NoTurn]))

\* gameLoop that updates the hostiles before it fires the player's weapon
Play_aiFirst ==
  /\ frame < DirFrames
  /\ \E gap \in DirGaps, input \in DirInputs :
       LET u == update(sprites, updatePlayer(player, input, deltaTime(gap)),
                       deltaTime(gap), now + gap, [i \in 1..Len(sprites) |-> NoTurn])
           w == updateWeapon(weapon, deltaTime(gap), input.fire, u.player,
                             u.sprites, <<0>>)
       IN AiDone(gap, w, [sprites |-> w.sprites, player |-> w.player, log |-> u.log])

\* one frame of gameLoop: updatePlayer, updateWeapon, SpriteManager.update,
\* checkPickups
Play ==
  /\ frame < DirFrames
  /\ \E gap \in DirGaps, input \in DirInputs :
       Fired(gap, updateWeapon(weapon, deltaTime(gap), input.fire,
                               updatePlayer(player, input, deltaTime(gap)),
                               sprites, <<0>>))

DirectorySpec == DirInit /\ [][Play]_vars

(***************************************************************************)
(* updateWeapon between switches of the weapon, with no hostile around     *)
(***************************************************************************)
\* number of updateWeapon calls explored
ArsenalFrames == 5

\* the observation of the weapon's shots: for each weapon type the
\* simulated ms since the update in which it last fired (-1: never)
NoShots == [kind |-> "shots", dt |-> 0, since |-> [t \in DOMAIN WEAPON_STATS |-> -1]]

ArsenalInit ==
  /\ sprites = <<>>
  /\ player = createPlayer([x |-> 250, y |-> 250, dirX |-> 1000, dirY |-> 0])
  /\ weapon = createWeapon
  /\ killCount = 0
  /\ now = Epoch
  /\ frame = 0
  /\ events = 0
  /\ log = <<>>
  /\ shot = NoShot
  /\ seenAgo = <<>>
  /\ sinceAttack = <<>>
  /\ app = Playing
  /\ exposed = <<>>
  /\ nextSpriteId = 1
  /\ respawnQueue = <<>>
  /\ projectiles = <<>>
  /\ probe = NoShots

\* the end of an updateWeapon call: w is its result
Triggered(dt, w) ==
  /\ weapon' = w.weapon
  /\ player' = w.player
  /\ shot' = w.shot
  /\ probe' = [kind |-> "shots", dt |-> dt,
               since |-> [t \in DOMAIN WEAPON_STATS |->
                            IF w.shot.fired /\ t = weapon.type THEN 0
                            ELSE IF probe.since[t] < 0 THEN -1
                            ELSE probe.since[t] + dt]]
  /\ now' = now + dt
  /\ frame' = frame + 1
  /\ UNCHANGED <<sprites, killCount, events, log, seenAgo, sinceAttack, app, exposed,
                 nextSpriteId, respawnQueue, projectiles>>

\* updateWeapon in a frame of 0.1 s with the fire key held or not
Trigger ==
  /\ frame < ArsenalFrames
  /\ \E isFiring \in BOOLEAN :
       Triggered(MaxDelta,
                 updateWeapon(weapon, MaxDelta, isFiring, player, sprites,
                              [k \in 1..RayCount(weapon.type) |-> 0]))

ArsenalNext == Trigger \/ KeyDown \/ Wheel

ArsenalSpec == ArsenalInit /\ [][ArsenalNext]_vars

(***************************************************************************)
(* The page outside the game proper: keys, the menu frames of gameLoop,    *)
(* the events of the peer and its connection, the startOnlineGame timers   *)
(* and the passing of time.  No frame of the game proper runs.  The page   *)
(* starts in the menu with any option selected.                            *)
(***************************************************************************)
GameVars ==
  <<sprites, player, weapon, killCount, frame, events, log, shot, seenAgo, sinceAttack,
    exposed, probe, nextSpriteId, respawnQueue, projectiles>>

AppInit ==
  /\ sprites = <<>>
  /\ player = createPlayer([x |-> 250, y |-> 250, dirX |-> 1000, dirY |-> 0])
  /\ weapon = createWeapon
  /\ killCount = 0
  /\ now = Epoch
  /\ frame = 0
  /\ events = 0
  /\ log = <<>>
  /\ shot = NoShot
  /\ seenAgo = <<>>
  /\ sinceAttack = <<>>
  /\ \E option \in 0..LastOption : app = [AppStart EXCEPT !.menuSelection = option]
  /\ exposed = <<>>
  /\ nextSpriteId = 1
  /\ respawnQueue = <<>>
  /\ projectiles = <<>>
  /\ probe = NoProbe

\* a keydown event
KeyPress ==
  /\ events < MaxKeys
  /\ events' = events + 1
  /\ \E code \in AppKeys : app' = keydown(app, code, now, killCount)
  /\ UNCHANGED <<now, sprites, player, weapon, killCount, frame, log, shot, seenAgo,
                 sinceAttack, exposed, probe, nextSpriteId, respawnQueue, projectiles>>

\* a frame of gameLoop in the menu
MenuFrame ==
  /\ app.gameMode = "menu"
  /\ app' = menu(app, now)
  /\ UNCHANGED <<now, GameVars>>

\* peer.on('open'): the host's promise resolves and startHosting shows the
\* room code; the guest dials the host
PeerOpened ==
  /\ app.peer = "opening"
  /\ app' = IF app.isHost
            THEN [app EXCEPT !.peer = "open", !.lobbyStatus = "Room ready!"]
            ELSE [app EXCEPT !.peer = "open", !.connection = "dialing"]
  /\ UNCHANGED <<now, GameVars>>

\* peer.on('connection') of the host: a guest has dialled
GuestArrived ==
  /\ app.peer = "open"
  /\ app.isHost
  /\ Len(app.timers) < MaxTimers
  /\ app' = setupConnection([app EXCEPT !.connection = "accepted"], now, killCount)
  /\ UNCHANGED <<now, GameVars>>

\* the connection's 'open' event: the guest's handler in joinGame calls
\* setupConnection, the host's handler set by setupConnection tells the
\* callback once more
ConnOpened ==
  /\ app.connection \in {"dialing", "accepted"}
  /\ Len(app.timers) < MaxTimers
  /\ app' = IF app.connection = "dialing"
            THEN setupConnection([app EXCEPT !.connection = "open"], now, killCount)
            ELSE handleConnectionChange([app EXCEPT !.connection = "open"], TRUE, "",
                                        now, killCount)
  /\ UNCHANGED <<now, GameVars>>

\* the connection's 'close' event
ConnClosed ==
  /\ app.connection \in {"accepted", "open"}
  /\ app' = handleConnectionChange([app EXCEPT !.connection = "closed"], FALSE,
                                   "Connection lost", now, killCount)
  /\ UNCHANGED <<now, GameVars>>

\* the timer of handleConnectionChange that is due first fires
TimerFired ==
  /\ Len(app.timers) > 0
  /\ app.timers[1] <= now
  /\ app' = startOnlineGame([app EXCEPT !.timers = Tail(@)], now)
  /\ UNCHANGED <<now, GameVars>>

\* time passes: the delay of a pending timer, or a long while when no timer
\* is pending
Tick ==
  /\ \E d \in AppTicks :
       /\ now + d <= Epoch + AppHorizon
       /\ (d = StartDelay) <=> (Len(app.timers) > 0)
       /\ \A k \in 1..Len(app.timers) : app.timers[k] >= now + d
       /\ now' = now + d
  /\ UNCHANGED <<app, GameVars>>

AppNext ==
  \/ KeyPress
  \/ MenuFrame
  \/ PeerOpened
  \/ GuestArrived
  \/ ConnOpened
  \/ ConnClosed
  \/ TimerFired
  \/ Tick

AppSpec == AppInit /\ [][AppNext]_vars

(***************************************************************************)
(* The game loop late in a game: the health pickup of the level has been   *)
(* taken and waits in the respawn queue, the player has been hurt since    *)
(***************************************************************************)
\* the health the player has left
LateHealths == {10, 20, 60}

\* the places the player stands at, facing east: 0.15 units, 0.5 units and
\* one unit west of the place of the pickup
LateStarts == {[x |-> 335, y |-> 250], [x |-> 300, y |-> 250], [x |-> 250, y |-> 250]}

\* the time left until the pickup respawns, ms
LateDelays == {200, 1000, RESPAWN_DELAY}

LateInit ==
  \E start \in LateStarts, h \in LateHealths, d \in LateDelays :
    /\ sprites = spawnSprites(<< [x |-> 3, y |-> 2, type |-> "demon"] >>)
    /\ player = [createPlayer([x |-> start.x, y |-> start.y, dirX |-> 1000, dirY |-> 0])
                   EXCEPT !.health = h]
    /\ weapon = createWeapon
    /\ killCount = 0
    /\ now = Epoch
    /\ frame = 0
    /\ events = 0
    /\ log = <<>>
    /\ shot = NoShot
    /\ seenAgo = <<>>
    /\ sinceAttack = <<>>
    /\ app = Playing
    /\ exposed = <<>>
    /\ nextSpriteId = 3
    /\ respawnQueue = << [spawn |-> [x |-> 3, y |-> 2, type |-> "health"],
                          respawnTime |-> Epoch + d] >>
    /\ projectiles = <<>>
    /\ probe = NoProbe

LateSpec == LateInit /\ [][Play]_vars

(***************************************************************************)
(* Raycaster (raycaster.ts)                                                *)
(***************************************************************************)
\* castSingleRay before its loop.  fracX, fracY: the distance from the
\* position to the next grid line in the direction of the ray; nX, nY: how
\* often deltaDistX, deltaDistY have been added, so that
\* sideDistX = (fracX + nX * U) * 10 / |rayDirX| map units (and Y alike)
rayStart(posX, posY, rayDirX, rayDirY) ==
  [ kind |-> "ray", posX |-> posX, posY |-> posY,
    rayDirX |-> rayDirX, rayDirY |-> rayDirY,
    mapX |-> posX \div U, mapY |-> posY \div U,
    stepX |-> IF rayDirX < 0 THEN -1 ELSE 1,
    stepY |-> IF rayDirY < 0 THEN -1 ELSE 1,
    fracX |-> IF rayDirX < 0 THEN posX - (posX \div U) * U
              ELSE (posX \div U + 1) * U - posX,
    fracY |-> IF rayDirY < 0 THEN posY - (posY \div U) * U
              ELSE (posY \div U + 1) * U - posY,
    nX |-> 0, nY |-> 0, side |-> 0, hit |-> FALSE, steps |-> 0 ]

\* sideDistX < sideDistY; a zero component of the direction makes its
\* deltaDist 1e30
sideXLess(r) ==
  IF r.rayDirX = 0
  THEN r.rayDirY = 0 /\ r.fracX + r.nX * U < r.fracY + r.nY * U
  ELSE IF r.rayDirY = 0 THEN TRUE
  ELSE (r.fracX + r.nX * U) * Abs(r.rayDirY) < (r.fracY + r.nY * U) * Abs(r.rayDirX)

\* the cell (mapX, mapY) ends the ray: out of bounds or MAP > 0
rayStops(mapX, mapY) ==
  IF mapX < 0 \/ mapX >= MAP_WIDTH \/ mapY < 0 \/ mapY >= MAP_HEIGHT
  THEN TRUE
  ELSE MAP[mapY + 1][mapX + 1] > 0

\* one iteration of the DDA loop that steps in Y when sideDistX is smaller
ddaStep_swapped(r) ==
  IF ~sideXLess(r)
  THEN [r EXCEPT !.nX = @ + 1, !.mapX = @ + r.stepX, !.side = 0, !.steps = @ + 1,
                 !.hit = rayStops(r.mapX + r.stepX, r.mapY)]
  ELSE [r EXCEPT !.nY = @ + 1, !.mapY = @ + r.stepY, !.side = 1, !.steps = @ + 1,
                 !.hit = rayStops(r.mapX, r.mapY + r.stepY)]

\* one iteration of the DDA loop of castSingleRay
ddaStep(r) ==
  IF sideXLess(r)
  THEN [r EXCEPT !.nX = @ + 1, !.mapX = @ + r.stepX, !.side = 0, !.steps = @ + 1,
                 !.hit = rayStops(r.mapX + r.stepX, r.mapY)]
  ELSE [r EXCEPT !.nY = @ + 1, !.mapY = @ + r.stepY, !.side = 1, !.steps = @ + 1,
                 !.hit = rayStops(r.mapX, r.mapY + r.stepY)]

\* perpWallDist after the loop as the fraction num / den of a map unit,
\* not below 0.01
perpWallDist(r) ==
  LET num == IF r.side = 0 THEN (r.fracX + (r.nX - 1) * U) * 10
             ELSE (r.fracY + (r.nY - 1) * U) * 10
      den == IF r.side = 0 THEN Abs(r.rayDirX) ELSE Abs(r.rayDirY)
  IN IF num * 100 < den THEN [num |-> 1, den |-> 100] ELSE [num |-> num, den |-> den]

\* points in empty cells the rays start from (hundredths): the two spawn
\* points, the red room, the closed room, a corner of a cell, a place next
\* to the east wall
RayStarts ==
  { [x |-> 250, y |-> 250], [x |-> 2150, y |-> 2150], [x |-> 650, y |-> 650],
    [x |-> 1150, y |-> 1250], [x |-> 100, y |-> 100], [x |-> 2299, y |-> 1120] }

\* ray directions (thousandths), none shorter than a unit vector: the axes,
\* the diagonals, the edges of the field of view, nearly axis-parallel rays
RayDirs ==
  { [x |-> 1000, y |-> 0], [x |-> -1000, y |-> 0], [x |-> 0, y |-> 1000],
    [x |-> 0, y |-> -1000], [x |-> 708, y |-> 708], [x |-> -708, y |-> 708],
    [x |-> 708, y |-> -708], [x |-> -708, y |-> -708], [x |-> 1000, y |-> 660],
    [x |-> 1000, y |-> -660], [x |-> -660, y |-> 1000], [x |-> 1000, y |-> 1],
    [x |-> -1, y |-> -1000], [x |-> 600, y |-> -800], [x |-> -960, y |-> 280] }

RayInit ==
  \E p \in RayStarts, d \in RayDirs :
    /\ sprites = <<>>
    /\ player = createPlayer([x |-> p.x, y |-> p.y, dirX |-> 1000, dirY |-> 0])
    /\ weapon = createWeapon
    /\ killCount = 0
    /\ now = Epoch
    /\ frame = 0
    /\ events = 0
    /\ log = <<>>
    /\ shot = NoShot
    /\ seenAgo = <<>>
    /\ sinceAttack = <<>>
    /\ app = Playing
    /\ exposed = <<>>
    /\ nextSpriteId = Len(sprites) + 1
    /\ respawnQueue = <<>>
    /\ projectiles = <<>>
    /\ probe = rayStart(p.x, p.y, d.x, d.y)

\* one iteration of the loop "while (!hit)" of castSingleRay
DDAStep ==
  /\ probe.kind = "ray" /\ ~probe.hit
  /\ probe' = ddaStep(probe)
  /\ UNCHANGED <<sprites, player, weapon, killCount, now, frame, events, log, shot,
                 seenAgo, sinceAttack, app, exposed, nextSpriteId, respawnQueue, projectiles>>

RaySpec == RayInit /\ [][DDAStep]_vars

RECURSIVE runDDA(_)
\* the loop "while (!hit)" of castSingleRay
runDDA(r) == IF r.hit THEN r ELSE runDDA(ddaStep(r))

\* the RayHit castSingleRay returns (without wallX, the texture coordinate)
rayHit(r) ==
  [distance |-> perpWallDist(r), side |-> r.side, mapX |-> r.mapX, mapY |-> r.mapY]

\* castSingleRay
castSingleRay(posX, posY, rayDirX, rayDirY) ==
  rayHit(runDDA(rayStart(posX, posY, rayDirX, rayDirY)))

\* the ray of a column: dir + plane * cameraX with cameraX = num / den
columnRay(pl, num, den) ==
  [ cameraX |-> [num |-> num, den |-> den],
    hit |-> castSingleRay(pl.pos.x, pl.pos.y,
                          pl.dir.x + RoundDiv(pl.plane.x * num, den),
                          pl.dir.y + RoundDiv(pl.plane.y * num, den)) ]

\* castRays whose cameraX reaches +1 at the last column
castRays_toEdge(pl, screenWidth) ==
  [c \in 1..screenWidth |->
     IF screenWidth = 1 THEN columnRay(pl, -1, 1)
     ELSE columnRay(pl, 2 * (c - 1) - (screenWidth - 1), screenWidth - 1)]

\* castRays: column c of the model is the source's x = c - 1, its cameraX
\* is (2 * x) / screenWidth - 1
castRays(pl, screenWidth) ==
  [c \in 1..screenWidth |-> columnRay(pl, 2 * (c - 1) - screenWidth, screenWidth)]

\* the number of updatePlayer calls before the rays are cast
FanFrames == 2

\* config.screenWidth, in character cells
ScreenWidths == {1, 2, 4, 5}

\* the keys held while the player turns and walks
FanInputs ==
  { [NoInput EXCEPT !.left = TRUE], [NoInput EXCEPT !.right = TRUE],
    [NoInput EXCEPT !.forward = TRUE], [NoInput EXCEPT !.strafeLeft = TRUE] }

\* SPAWN_POINTS, in hundredths and thousandths
SPAWN_POINTS ==
  { [x |-> 250, y |-> 250, dirX |-> 1000, dirY |-> 0],
    [x |-> 2150, y |-> 2150, dirX |-> -1000, dirY |-> 0] }

FanInit ==
  \E spawn \in SPAWN_POINTS :
    /\ sprites = <<>>
    /\ player = createPlayer(spawn)
    /\ weapon = createWeapon
    /\ killCount = 0
    /\ now = Epoch
    /\ frame = 0
    /\ events = 0
    /\ log = <<>>
    /\ shot = NoShot
    /\ seenAgo = <<>>
    /\ sinceAttack = <<>>
    /\ app = Playing
    /\ exposed = <<>>
    /\ nextSpriteId = Len(sprites) + 1
    /\ respawnQueue = <<>>
    /\ projectiles = <<>>
    /\ probe = NoProbe

\* updatePlayer with a key held
Turn ==
  /\ frame < FanFrames
  /\ \E input \in FanInputs :
       /\ player' = updatePlayer(player, input, MaxDelta)
       /\ now' = now + MaxDelta
       /\ frame' = frame + 1
       /\ UNCHANGED <<sprites, weapon, killCount, events, log, shot, seenAgo,
                      sinceAttack, app, exposed,
                      probe, nextSpriteId, respawnQueue, projectiles>>

\* castRays(player) on a screen of screenWidth columns
CastRays ==
  \E screenWidth \in ScreenWidths :
    /\ probe' = [kind |-> "fan", pos |-> player.pos, dir |-> player.dir,
                 plane |-> player.plane, screenWidth |-> screenWidth,
                 hits |-> castRays(player, screenWidth)]
    /\ UNCHANGED <<sprites, player, weapon, killCount, now, frame, events, log, shot,
                   seenAgo, sinceAttack, app, exposed, nextSpriteId, respawnQueue, projectiles>>

FanNext == Turn \/ CastRays

FanSpec == FanInit /\ [][FanNext]_vars

(***************************************************************************)
(* Properties                                                              *)
(***************************************************************************)
Hostiles == {i \in 1..Len(sprites) : isEnemy(sprites[i].type)}
\* the hostiles whose AI step ran in the last update
Ran == {i \in Hostiles : i <= Len(log) /\ log[i].ran}
Stats(i) == ENEMY_STATS[sprites[i].type]
Range2(i) == Stats(i).attackRange * Stats(i).attackRange

\* C1: every damageSprite call with a positive amount leaves the hostile's
\* health at max(0, health before - damage), and a hostile is dead exactly
\* when its health is 0
C1_HealthAfterDamage ==
  /\ \A k \in 1..Len(shot.calls) :
       LET c == shot.calls[k]
       IN c.damage > 0 =>
            /\ c.after.health = Max(0, c.before.health - c.damage)
            /\ (c.after.state = "dead" <=> c.after.health = 0)
  /\ \A i \in Hostiles :
       sprites[i].health >= 0 /\ (sprites[i].state = "dead" <=> sprites[i].health = 0)

\* a hostile hit twice in one shot: the first hit leaves it alive, the
\* second is more than its remaining health
C1_Witness ==
  \E k, l \in 1..Len(shot.calls) :
    /\ k < l /\ shot.calls[k].target = shot.calls[l].target
    /\ shot.calls[k].after.health > 0 /\ shot.calls[k].after.state = "pain"
    /\ shot.calls[l].damage > shot.calls[l].before.health
    /\ sprites[shot.calls[l].target].state = "dead"
    /\ sprites[shot.calls[l].target].health = 0

\* C2: a dead hostile stays dead: no step changes its state, position,
\* direction or attack cooldown, and the update of a hostile that is dead
\* when its turn comes (killed in this very frame included) leaves the
\* player's health alone
C2_DeadStaysDead ==
  [][ /\ \A i \in Hostiles :
           sprites[i].state = "dead" =>
             /\ sprites'[i].state = "dead"
             /\ sprites'[i].pos = sprites[i].pos
             /\ sprites'[i].dir = sprites[i].dir
             /\ sprites'[i].attackCooldown = sprites[i].attackCooldown
      /\ \A i \in 1..Len(log') :
           log'[i].pre = "dead" =>
             /\ log'[i].post = "dead"
             /\ log'[i].hp1 = log'[i].hp0
             /\ log'[i].pos1 = log'[i].pos0
             /\ log'[i].dir1 = log'[i].dir0
             /\ log'[i].cdAfter = log'[i].cd0 ]_vars

\* a hostile that was in "attack" with its cooldown expired is killed by
\* the shot of this frame, before its AI step
C2_Witness ==
  \E k \in 1..Len(shot.calls) :
    LET c == shot.calls[k]
    IN /\ c.before.state = "attack" /\ c.before.attackCooldown <= 0
       /\ c.after.state = "dead"
       /\ log[c.target].pre = "dead"
       /\ sprites[c.target].state = "dead"

\* the live hostiles a targeting query q made from the point from can return
LiveCandidates(q, from) ==
  { i \in 1..Len(q.sp) :
      /\ q.sp[i].state # "dead" /\ isEnemy(q.sp[i].type)
      /\ Dist2(q.sp[i].pos, from) >= TooClose * TooClose
      /\ (q.range = 0 \/ Dist2(q.sp[i].pos, from) <= q.range * q.range)
      /\ InCone(q.aim, q.sp[i].pos.x - from.x, q.sp[i].pos.y - from.y, q.tan)
      /\ hasLineOfSight(from, q.sp[i].pos) }

\* C3: the targeting queries return only live hostiles, and return one
\* whenever a live hostile is in the cone (a dead one nearer the player
\* does not hide it); applySplashDamage and the shot's damageSprite calls
\* leave dead hostiles, pickups and corpses untouched
C3_LiveTargetsOnly ==
  /\ \A k \in 1..Len(shot.queries) :
       LET q == shot.queries[k]
       IN /\ q.target # 0 =>
               q.sp[q.target].state # "dead" /\ isEnemy(q.sp[q.target].type)
          /\ LiveCandidates(q, shot.from) # {} => q.target \in LiveCandidates(q, shot.from)
  /\ \A k \in 1..Len(shot.splash) :
       LET e == shot.splash[k]
       IN \A i \in 1..Len(e.sp) :
            (e.sp[i].state = "dead" \/ ~isEnemy(e.sp[i].type)) =>
              applySplashDamage(e.sp, e.center, e.radius, e.damage)[i] = e.sp[i]
  /\ \A k \in 1..Len(shot.calls) :
       shot.calls[k].before.state # "dead" /\ isEnemy(shot.calls[k].before.type)

\* a shot hit a live hostile standing behind a dead one in the same cone
C3_Witness ==
  \E k \in 1..Len(shot.queries) :
    LET q == shot.queries[k]
    IN /\ q.target # 0
       /\ \E j \in 1..Len(q.sp) :
            /\ q.sp[j].state = "dead" /\ isEnemy(q.sp[j].type)
            /\ InCone(q.aim, q.sp[j].pos.x - shot.from.x, q.sp[j].pos.y - shot.from.y, q.tan)
            /\ Dist2(q.sp[j].pos, shot.from) >= TooClose * TooClose
            /\ Dist2(q.sp[j].pos, shot.from) < Dist2(q.sp[q.target].pos, shot.from)

AllowedEdge(a, b) ==
  \/ a = b
  \/ <<a, b>> \in { <<"idle", "chase">>, <<"chase", "attack">>, <<"chase", "idle">>,
                    <<"attack", "chase">>, <<"pain", "chase">> }
  \/ a # "dead" /\ b \in {"pain", "dead"}

\* C4: over a frame (updateWeapon's damageSprite calls and the update) a
\* hostile's state changes only along the edges of the state machine
C4_Transitions ==
  [][ \A i \in Hostiles : AllowedEdge(sprites[i].state, sprites'[i].state) ]_vars

\* a hostile that was hurt has recovered: pain -> chase in the last update
C4_Witness == \E i \in Ran : log[i].pre = "pain" /\ log[i].post = "chase"

\* C5 as stated: an idle hostile with line of sight and distance <= the
\* awareness radius is in "chase" after its update
C5_Original ==
  \A i \in Ran :
    (/\ log[i].pre = "idle" /\ log[i].canSee
     /\ log[i].dsq <= AwarenessRadius * AwarenessRadius) => log[i].post = "chase"

\* C5 amended: an idle hostile with line of sight and distance < the
\* awareness radius is in "chase" after its update
C5_IdleNotices ==
  \A i \in Ran :
    (/\ log[i].pre = "idle" /\ log[i].canSee
     /\ log[i].dsq < AwarenessRadius * AwarenessRadius) => log[i].post = "chase"

\* an idle hostile more than 8 units away noticed the player
C5_Witness ==
  \E i \in Ran :
    /\ log[i].pre = "idle" /\ log[i].canSee /\ log[i].post = "chase"
    /\ log[i].dsq > 800 * 800 /\ log[i].dsq < AwarenessRadius * AwarenessRadius

\* C6: a hostile that never had line of sight and never was within the
\* awareness radius is not in "attack" and its update does not change the
\* player's health
C6_HiddenNeverAttacks ==
  \A i \in Hostiles :
    ~exposed[i] =>
      /\ sprites[i].state # "attack"
      /\ i <= Len(log) => (log[i].post # "attack" /\ log[i].hp1 = log[i].hp0)

\* a hidden hostile was hurt, went through "pain" and is in "chase"
C6_Witness ==
  \E i \in Ran : ~exposed[i] /\ log[i].pre = "pain" /\ sprites[i].state = "chase"

\* C7 as stated: in "chase" the hostile switches to "attack" exactly when
\* the distance is <= the attack range
C7_Original ==
  \A i \in Ran :
    log[i].pre = "chase" => (log[i].post = "attack" <=> log[i].dsq <= Range2(i))

\* C7 amended: in "chase" the hostile switches to "attack" exactly when the
\* distance is < the attack range, or it is a cacodemon that sees the player
\* at a distance < 1.5 x the attack range
C7_ChaseToAttack ==
  \A i \in Ran :
    log[i].pre = "chase" =>
      (log[i].post = "attack" <=>
         \/ log[i].dsq < Range2(i)
         \/ /\ sprites[i].type = "cacodemon" /\ log[i].canSee
            /\ 4 * log[i].dsq < 9 * Range2(i))

\* a cacodemon switched to "attack" beyond its attack range
C7_Witness ==
  \E i \in Ran :
    /\ sprites[i].type = "cacodemon" /\ log[i].pre = "chase" /\ log[i].post = "attack"
    /\ log[i].dsq > Range2(i)

\* C8: in "attack", a distance above 1.5 x the attack range sends the
\* hostile to "chase" without damage; otherwise it stays in "attack"
C8_AttackGivesUp ==
  \A i \in Ran :
    log[i].pre = "attack" =>
      IF 4 * log[i].dsq > 9 * Range2(i)
      THEN log[i].post = "chase" /\ log[i].hp1 = log[i].hp0
      ELSE log[i].post = "attack"

\* the player backed off and the hostile, its cooldown expired, gave up
C8_Witness ==
  \E i \in Ran :
    /\ log[i].pre = "attack" /\ log[i].post = "chase" /\ log[i].cd <= 0
    /\ 4 * log[i].dsq > 9 * Range2(i)

\* C9 as stated: chase -> idle only after more than 3 s of simulated time
\* since the update in which the hostile last saw the player
C9_Original ==
  \A i \in Ran :
    (log[i].pre = "chase" /\ log[i].post = "idle" /\ seenAgo[i] >= 0)
      => seenAgo[i] > ForgetTimeout

\* C10: a melee attack with the cooldown expired takes the kind's damage
\* from the player's health (clamped at 0) and resets the cooldown; with
\* the cooldown still running the hostile deals no damage
C10_MeleeAttack ==
  \A i \in Ran :
    log[i].pre = "attack" =>
      /\ (/\ log[i].cd <= 0
          /\ 4 * log[i].dsq <= 9 * Range2(i)
          /\ (log[i].dsq <= MeleeLimit * MeleeLimit \/ Stats(i).projectileDamage = 0)
          /\ ~log[i].dead0)
         => /\ log[i].hp1 = Max(0, log[i].hp0 - Stats(i).damage)
            /\ log[i].cdAfter = Stats(i).attackCooldown
            /\ (sprites[i].type = "imp" /\ log[i].hp0 >= 5) => log[i].hp1 = log[i].hp0 - 5
      /\ log[i].cd > 0 => log[i].hp1 = log[i].hp0

\* an imp's first melee hit: 5 off the player's health, cooldown reset
C10_Witness ==
  \E i \in Ran :
    /\ sprites[i].type = "imp" /\ log[i].pre = "attack" /\ log[i].cd <= 0
    /\ log[i].hp0 = 100 /\ log[i].hp1 = 95 /\ log[i].cdAfter = 1500

\* a hostile's attack is ranged when its kind has projectileDamage and the
\* player is more than 2 units away
RangedTick(i) ==
  /\ log[i].pre = "attack" /\ log[i].cd <= 0
  /\ 4 * log[i].dsq <= 9 * Range2(i)
  /\ Stats(i).projectileDamage # 0 /\ log[i].dsq > MeleeLimit * MeleeLimit

\* C11: a ranged attack takes the kind's projectileDamage from the health of
\* a live player exactly when the hostile has line of sight to the player at
\* that tick; without line of sight the player's health is unchanged, the
\* hostile stays where it is in "attack" with only its timer reset, and so
\* attempts again at its next tick with the cooldown expired
C11_RangedNeedsSight ==
  \A i \in Ran :
    RangedTick(i) =>
      /\ log[i].canSee = hasLineOfSight(log[i].pos0, player.pos)
      /\ log[i].hp1 < log[i].hp0 => log[i].canSee
      /\ (log[i].canSee /\ ~log[i].dead0)
           => log[i].hp1 = Max(0, log[i].hp0 - Stats(i).projectileDamage)
      /\ ~log[i].canSee =>
           /\ log[i].hp1 = log[i].hp0
           /\ log[i].post = "attack" /\ log[i].pos1 = log[i].pos0
      /\ log[i].cdAfter = Stats(i).attackCooldown

\* a cacodemon's ranged attack at a live player it cannot see
C11_Witness ==
  \E i \in Ran :
    /\ RangedTick(i) /\ ~log[i].canSee /\ ~log[i].dead0
    /\ log[i].hp1 = log[i].hp0 /\ log[i].hp0 > 0

\* the hostiles that a damageSprite call of the shot left in "pain"
Stunned(sh) ==
  {sh.calls[k].target : k \in {n \in 1..Len(sh.calls) : sh.calls[n].after.state = "pain"}}

\* the hostiles the shot damaged
Damaged(sh) == {sh.calls[k].target : k \in 1..Len(sh.calls)}

\* C12 as stated: a hostile put into "pain" by the shot of one frame and not
\* damaged in the next frame is still in "pain" after the next frame's
\* update, since the two updates advance at most 0.2 s of the 0.3 s stun;
\* and the update of a hostile in "pain" neither moves it nor hurts the player
C12_Original ==
  [][ /\ \A i \in Stunned(shot) :
           (frame' = frame + 1 /\ sprites[i].state = "pain" /\ i \notin Damaged(shot'))
             => (2 * MaxDelta < PainDuration => sprites'[i].state = "pain")
      /\ \A i \in 1..Len(log') :
           log'[i].pre = "pain" =>
             log'[i].pos1 = log'[i].pos0 /\ log'[i].hp1 = log'[i].hp0 ]_vars

\* a is Math.floor(damage * (1 - dist / radius)) for the squared distance dsq
Falloff(dsq, radius, damage, a) ==
  LET g == GCD(radius, damage)
      r == radius \div g
      d == damage \div g
  IN /\ dsq * d * d <= r * r * (damage - a) * (damage - a)
     /\ a < damage => dsq * d * d > r * r * (damage - a - 1) * (damage - a - 1)

\* the health of sprite i went down by floor(D x (1 - d/R)), clamped at 0,
\* in the explosion e
Reduced(e, i) ==
  \E a \in 0..e.damage :
    /\ Falloff(Dist2(e.center, e.sp[i].pos), e.radius, e.damage, a)
    /\ sprites[i].health = Max(0, e.sp[i].health - a)

\* sprite i is a live hostile when the explosion e goes off
LiveAt(e, i) == e.sp[i].state # "dead" /\ isEnemy(e.sp[i].type)

\* C13 as stated: applySplashDamage reduces the health of every live
\* hostile at distance d < R by floor(D x (1 - d/R)), clamped at 0, and
\* leaves the health of the others unchanged
C13_Original ==
  \A k \in 1..Len(shot.splash) :
    LET e == shot.splash[k]
    IN \A i \in 1..Len(e.sp) :
         IF LiveAt(e, i) /\ Dist2(e.center, e.sp[i].pos) < e.radius * e.radius
         THEN Reduced(e, i)
         ELSE sprites[i].health = e.sp[i].health

\* C13 amended: applySplashDamage reduces the health of every live hostile
\* at distance 0.1 < d < R by floor(D x (1 - d/R)), clamped at 0, and leaves
\* the health of the others (d <= 0.1 or d >= R, dead, not hostile) unchanged
C13_SplashFalloff ==
  \A k \in 1..Len(shot.splash) :
    LET e == shot.splash[k]
    IN \A i \in 1..Len(e.sp) :
         IF /\ LiveAt(e, i) /\ Dist2(e.center, e.sp[i].pos) < e.radius * e.radius
            /\ Dist2(e.center, e.sp[i].pos) * 100 > U * U
         THEN Reduced(e, i)
         ELSE sprites[i].health = e.sp[i].health

\* an explosion that hurt one hostile, killed another, and left alone a
\* live one at its centre and one at the radius or beyond
C13_Witness ==
  \E k \in 1..Len(shot.splash) :
    LET e == shot.splash[k]
    IN \E i, j, c, o \in 1..Len(e.sp) :
         /\ LiveAt(e, i) /\ sprites[i].health > 0 /\ sprites[i].health < e.sp[i].health
         /\ LiveAt(e, j) /\ sprites[j].health = 0
         /\ LiveAt(e, c) /\ Dist2(e.center, e.sp[c].pos) * 100 <= U * U
         /\ sprites[c].health = e.sp[c].health
         /\ LiveAt(e, o) /\ Dist2(e.center, e.sp[o].pos) >= e.radius * e.radius
         /\ sprites[o].health = e.sp[o].health

\* the live hostiles at the distance dist (hundredths) from the centre of e
\* have lost the amount of health, clamped at 0
Loses(e, dist, amount) ==
  \A i \in 1..Len(e.sp) :
    (LiveAt(e, i) /\ Dist2(e.center, e.sp[i].pos) = dist * dist)
      => sprites[i].health = Max(0, e.sp[i].health - amount)

\* the explosion e is the splash of a shot of the rocket launcher, the
\* weapon with damage 100 and splash radius 3
RocketSplash(e) ==
  /\ shot.fired /\ weapon.type = "rocket" /\ e.radius = WEAPON_STATS["rocket"].splash
  /\ WEAPON_STATS["rocket"].damage = 100 /\ WEAPON_STATS["rocket"].splash = 300

\* C14 as stated: a splash of damage 100 and radius 3 deals 83, 34 and 0
\* to hostiles at distances 0.5, 2.0 and 3.5 from the impact
C14_Original ==
  \A k \in 1..Len(shot.splash) :
    LET e == shot.splash[k]
    IN (RocketSplash(e) \/ (e.radius = 300 /\ e.damage = 100))
         => Loses(e, 50, 83) /\ Loses(e, 200, 34) /\ Loses(e, 350, 0)

\* C14 amended: the splash of the rocket launcher (damage 100, radius 3)
\* has half the weapon's damage and deals 41, 16 and 0 to hostiles at
\* distances 0.5, 2.0 and 3.5 from the impact; applySplashDamage with
\* damage 100 and radius 3 deals them 83, 33 and 0
C14_SplashExample ==
  \A k \in 1..Len(shot.splash) :
    LET e == shot.splash[k]
    IN /\ RocketSplash(e)
            => Loses(e, 50, 41) /\ Loses(e, 200, 16) /\ Loses(e, 350, 0)
       /\ (~shot.fired /\ e.radius = 300 /\ e.damage = 100)
            => Loses(e, 50, 83) /\ Loses(e, 200, 33) /\ Loses(e, 350, 0)

\* a rocket exploded with three unhurt barons at distances 0.5, 2.0 and 3.5
C14_Witness ==
  \E k \in 1..Len(shot.splash) :
    LET e == shot.splash[k]
    IN /\ RocketSplash(e)
       /\ \A dist \in {50, 200, 350} :
            \E i \in 1..Len(e.sp) :
              /\ LiveAt(e, i) /\ Dist2(e.center, e.sp[i].pos) = dist * dist
              /\ e.sp[i].health = 100
       /\ sprites[2].health = 59 /\ sprites[3].health = 84 /\ sprites[4].health = 100

\* C15: hostile attacks, enemy projectile hits and explosions never leave
\* the player's health below 0, a player whose health is 0 is dead in the
\* same step, and the health of a dead player does not change, neither
\* over a step nor in the update of any single hostile
C15_PlayerHealth ==
  [][ /\ player'.health >= 0
      /\ player'.health = 0 => player'.isDead
      /\ player.isDead => player'.health = player.health /\ player'.isDead
      /\ \A i \in 1..Len(log') :
           /\ log'[i].hp1 >= 0
           /\ log'[i].dead0 => log'[i].hp1 = log'[i].hp0 ]_vars

\* a hostile's attack, its cooldown expired, on a player that a hit for
\* more than the health left has killed
C15_Witness ==
  /\ player.isDead /\ player.health = 0
  /\ \E i \in Ran :
       /\ log[i].pre = "attack" /\ log[i].cd <= 0 /\ log[i].dead0
       /\ 4 * log[i].dsq <= 9 * Range2(i)
       /\ log[i].cdAfter = Stats(i).attackCooldown

\* C16 as stated: after every update no live hostile's position lies in a
\* solid or out-of-bounds cell
C16_Original ==
  \A i \in Hostiles :
    sprites[i].state # "dead" => ~isWall(sprites[i].pos.x, sprites[i].pos.y)

\* C17: after every updatePlayer with dt <= 0.1 and any combination of
\* forward, backward, strafe and rotation inputs the player's position lies
\* in an empty in-bounds cell
C17_PlayerInEmptyCell ==
  /\ player.pos.x >= 0 /\ player.pos.x < MAP_WIDTH * U
  /\ player.pos.y >= 0 /\ player.pos.y < MAP_HEIGHT * U
  /\ ~isWall(player.pos.x, player.pos.y)

\* the player has walked to a place where a wall is nearer than a step
\* plus the margin on two sides
C17_Witness ==
  /\ frame = WalkFrames
  /\ \A p \in WalkStarts : player.pos # [x |-> p.x, y |-> p.y]
  /\ \E sx, sy \in {-1, 1} :
       /\ isWall(player.pos.x + sx * (35 + PLAYER_MARGIN), player.pos.y)
       /\ isWall(player.pos.x, player.pos.y + sy * (35 + PLAYER_MARGIN))
       /\ isWall(player.pos.x + sx * (35 + PLAYER_MARGIN),
                 player.pos.y + sy * (35 + PLAYER_MARGIN))

\* the coordinate (x, y) is outside the grid
Outside(x, y) == x < 0 \/ x >= MAP_WIDTH * U \/ y < 0 \/ y >= MAP_HEIGHT * U

\* C18: outside the grid isWall is true and getWallType is the boundary
\* default 1; inside the grid isWall holds exactly when getWallType is not 0
C18_WallQueries ==
  probe.kind = "cell" =>
    IF Outside(probe.x, probe.y)
    THEN probe.wall /\ probe.type = 1
    ELSE probe.wall <=> probe.type # 0

\* a query west of the grid, on a map that has empty cells and walls of
\* other types than 1
C18_Witness ==
  /\ probe.kind = "cell" /\ Outside(probe.x, probe.y)
  /\ probe.x = -75 /\ probe.y = 225 /\ probe.wall /\ probe.type = 1
  /\ ~isWall(150, 225) /\ getWallType(450, 450) = 2

\* the point where the ray r entered its cell lies on the side of the cell
\* it came through
EntersCell(r) ==
  IF r.side = 0
  THEN /\ r.rayDirX # 0
       /\ IF r.stepX = 1 THEN r.mapX * U = r.posX + r.fracX + (r.nX - 1) * U
          ELSE (r.mapX + 1) * U = r.posX - r.fracX - (r.nX - 1) * U
       /\ r.mapY * U * Abs(r.rayDirX)
            <= r.posY * Abs(r.rayDirX) + (r.fracX + (r.nX - 1) * U) * r.rayDirY
       /\ r.posY * Abs(r.rayDirX) + (r.fracX + (r.nX - 1) * U) * r.rayDirY
            <= (r.mapY + 1) * U * Abs(r.rayDirX)
  ELSE /\ r.rayDirY # 0
       /\ IF r.stepY = 1 THEN r.mapY * U = r.posY + r.fracY + (r.nY - 1) * U
          ELSE (r.mapY + 1) * U = r.posY - r.fracY - (r.nY - 1) * U
       /\ r.mapX * U * Abs(r.rayDirY)
            <= r.posX * Abs(r.rayDirY) + (r.fracY + (r.nY - 1) * U) * r.rayDirX
       /\ r.posX * Abs(r.rayDirY) + (r.fracY + (r.nY - 1) * U) * r.rayDirX
            <= (r.mapX + 1) * U * Abs(r.rayDirY)

\* the grid's diagonal length + 1, thousandths of a map unit (rounded down)
DiagonalPlus1 == 34941

\* C19: every iteration of castSingleRay's loop moves the ray to the
\* adjacent cell along its path; the loop runs on only through empty cells
\* inside the grid, so it has ended after at most MAP_WIDTH + MAP_HEIGHT
\* iterations, at the first solid cell of the path or outside the grid; the
\* distance returned is between 0.01 and the grid's diagonal + 1 (for rays
\* from empty cells whose direction vector is not shorter than a unit
\* vector, as the rays of castRays are)
C19_RayTerminates ==
  [][ probe'.kind = "ray" =>
        /\ probe'.steps = probe.steps + 1
        /\ probe'.steps <= MAP_WIDTH + MAP_HEIGHT
        /\ Abs(probe'.mapX - probe.mapX) + Abs(probe'.mapY - probe.mapY) = 1
        /\ EntersCell(probe')
        /\ ~rayStops(probe.mapX, probe.mapY)
        /\ probe'.hit <=> rayStops(probe'.mapX, probe'.mapY)
        /\ probe'.hit =>
             /\ perpWallDist(probe').den > 0
             /\ perpWallDist(probe').num * 100 >= perpWallDist(probe').den
             /\ perpWallDist(probe').num * 1000
                  <= DiagonalPlus1 * perpWallDist(probe').den ]_vars

\* a diagonal ray from the spawn point has crossed at least three empty
\* cells, changing both its column and its row, and ended on a wall
C19_Witness ==
  /\ probe.kind = "ray" /\ probe.hit /\ probe.steps >= 4
  /\ probe.nX >= 1 /\ probe.nY >= 1
  /\ probe.rayDirX # 0 /\ probe.rayDirY # 0
  /\ rayStops(probe.mapX, probe.mapY)
  /\ perpWallDist(probe).num > perpWallDist(probe).den

\* hit c of the fan is the ray cast in the direction dir + plane * cameraX
CastAlong(c) ==
  probe.hits[c].hit =
    castSingleRay(probe.pos.x, probe.pos.y,
                  probe.dir.x + RoundDiv(probe.plane.x * probe.hits[c].cameraX.num,
                                         probe.hits[c].cameraX.den),
                  probe.dir.y + RoundDiv(probe.plane.y * probe.hits[c].cameraX.num,
                                         probe.hits[c].cameraX.den))

\* the cameraX of column c is the fraction num / den
CameraXIs(c, num, den) ==
  probe.hits[c].cameraX.num * den = num * probe.hits[c].cameraX.den

SolidAt(a, b, i, n) ==
  isWall((a.x * n + (b.x - a.x) * i) \div n, (a.y * n + (b.y - a.y) * i) \div n)

\* C21: the samples of hasLineOfSight are at most 0.25 units apart, and the
\* result is false exactly when one of the samples is in a solid cell
C21_LineOfSight ==
  probe.kind = "sight" =>
    /\ 16 * Dist2(probe.from, probe.to) <= probe.steps * probe.steps * U * U
    /\ probe.clear <=>
         \A i \in 1..(probe.steps - 1) : ~SolidAt(probe.from, probe.to, i, probe.steps)

\* a segment of more than two units whose samples of the first half are
\* free and one of the second half is solid
C21_Witness ==
  /\ probe.kind = "sight" /\ ~probe.clear /\ probe.steps > 8
  /\ \A i \in 1..((probe.steps - 1) \div 2) :
       ~SolidAt(probe.from, probe.to, i, probe.steps)

\* the live hostiles in the cone of the query q with line of sight from the
\* point from, however near they are
InSight(q, from) ==
  { i \in 1..Len(q.sp) :
      /\ q.sp[i].state # "dead" /\ isEnemy(q.sp[i].type)
      /\ InCone(q.aim, q.sp[i].pos.x - from.x, q.sp[i].pos.y - from.y, q.tan)
      /\ hasLineOfSight(from, q.sp[i].pos) }

\* the query q returned the nearest of the candidates c, the one with the
\* lowest id among the nearest, and null when there is none
Nearest(q, from, c) ==
  IF c = {} THEN q.target = 0
  ELSE /\ q.target \in c
       /\ \A j \in c :
            \/ Dist2(q.sp[q.target].pos, from) < Dist2(q.sp[j].pos, from)
            \/ /\ Dist2(q.sp[q.target].pos, from) = Dist2(q.sp[j].pos, from)
               /\ q.sp[q.target].id <= q.sp[j].id

\* C22 as stated: the candidates of getSpriteInDirection are the live
\* hostiles in the cone with line of sight
C22_Original ==
  \A k \in 1..Len(shot.queries) :
    shot.queries[k].range = 0 =>
      Nearest(shot.queries[k], shot.from, InSight(shot.queries[k], shot.from))

\* C22: getSpriteInDirection returns the nearest of the live hostiles in the
\* cone with line of sight that are at least 0.5 units away, the one with
\* the lowest id when several are nearest, and null when there is none
C22_NearestInCone ==
  \A k \in 1..Len(shot.queries) :
    shot.queries[k].range = 0 =>
      Nearest(shot.queries[k], shot.from, LiveCandidates(shot.queries[k], shot.from))

\* after a pickup was taken and came back with a new id, the query chose
\* between two hostiles at the same distance, with a nearer hostile less
\* than 0.5 units from the player
C22_Witness ==
  /\ \E i \in 1..Len(sprites) : sprites[i].id > Len(DirSpawns)
  /\ \E k \in 1..Len(shot.queries) :
       LET q == shot.queries[k]
       IN /\ q.range = 0 /\ q.target # 0 /\ q.sp[q.target].id # q.target
          /\ \E j \in LiveCandidates(q, shot.from) :
               /\ j # q.target
               /\ Dist2(q.sp[j].pos, shot.from) = Dist2(q.sp[q.target].pos, shot.from)
          /\ InSight(q, shot.from) # LiveCandidates(q, shot.from)

\* what became of the projectiles in the last ProjectileManager.update
Outcomes == IF probe.kind = "update" THEN probe.out ELSE <<>>

\* the resolution of a projectile changed no health
NoHarm(o) ==
  /\ o.hp1 = o.hp0
  /\ \A j \in 1..Len(o.sp0) : o.sp1[j].health = o.sp0[j].health

\* C23: a projectile whose life is used up and that is not in a wall is
\* removed by that update without any change of a health, it is the first
\* update at which the accumulated dt reaches its lifetime, and no
\* projectile with its life used up stays in the manager
C23_Expiry ==
  /\ \A k \in 1..Len(Outcomes) :
       LET o == Outcomes[k]
       IN /\ (o.proj.life <= 0 /\ ~isWall(o.proj.pos.x, o.proj.pos.y)) => o.how = "expired"
          /\ o.how = "expired" =>
               /\ PROJECTILE_DEFS[o.proj.type].life - o.proj.life >=
                    PROJECTILE_DEFS[o.proj.type].life
               /\ PROJECTILE_DEFS[o.proj.type].life - (o.proj.life + probe.dt) <
                    PROJECTILE_DEFS[o.proj.type].life
               /\ NoHarm(o)
  /\ \A i \in 1..Len(projectiles) : projectiles[i].life > 0

\* a projectile expires in the open while another one flies on
C23_Witness ==
  /\ \E k \in 1..Len(Outcomes) :
       /\ Outcomes[k].how = "expired"
       /\ Outcomes[k].proj.life = 0
       /\ ~isWall(Outcomes[k].proj.pos.x, Outcomes[k].proj.pos.y)
  /\ Len(projectiles) = 1

\* the live hostiles within the hit radius of the projectile of outcome o
InReach(o) ==
  { j \in 1..Len(o.sp0) :
      /\ isEnemy(o.sp0[j].type) /\ o.sp0[j].state # "dead"
      /\ Dist2(o.proj.pos, o.sp0[j].pos) < HitRadius * HitRadius }

\* C24: a player's projectile that is neither in a wall nor expired hits
\* the first live hostile in directory order within the hit radius, if
\* there is one: that hostile takes the projectile's damage, every other
\* hostile loses less than that (splash only), and the projectile is gone
\* from the manager after the update
C24_SingleDirectHit ==
  /\ \A k \in 1..Len(Outcomes) :
       LET o == Outcomes[k]
       IN /\ o.how = "enemy" =>
               /\ o.proj.owner = 0
               /\ o.target \in InReach(o)
               /\ \A j \in InReach(o) : o.target <= j
               /\ o.sp1[o.target].health =
                    Max(0, o.sp0[o.target].health - o.proj.damage)
               /\ \A j \in 1..Len(o.sp0) :
                    j # o.target => o.sp0[j].health - o.sp1[j].health < o.proj.damage
          /\ (/\ o.proj.owner = 0 /\ InReach(o) # {} /\ o.proj.life > 0
              /\ ~isWall(o.proj.pos.x, o.proj.pos.y)) => o.how = "enemy"
          /\ o.how # "enemy" => o.target = 0
  /\ probe.kind = "update" =>
       Len(projectiles) = Cardinality({k \in 1..Len(Outcomes) : Outcomes[k].how = "flying"})

\* a rocket reaches the place where a pickup, a dead imp, a demon and a
\* baron stand: the demon takes the hit and the baron keeps its health
C24_Witness ==
  \E k \in 1..Len(Outcomes) :
    LET o == Outcomes[k]
    IN /\ o.how = "enemy" /\ o.proj.type = "rocket" /\ o.target = 3
       /\ 4 \in InReach(o)
       /\ isEnemy(o.sp0[2].type) /\ o.sp0[2].state = "dead"
       /\ Dist2(o.proj.pos, o.sp0[2].pos) < HitRadius * HitRadius
       /\ o.sp1[4].health = o.sp0[4].health
       /\ o.sp1[5].health < o.sp0[5].health

\* C25: the dt of a frame, as seen in what updatePlayer, updateWeapon and
\* SpriteManager.update did with it, is at most 0.1 s: each walk of the
\* player is at most 0.1 s of its speed, a weapon cooling down that does
\* not fire loses at most 0.1 s of cooldown, and the attack cooldown of
\* each hostile is first lowered by at most 0.1 s
C25_DeltaCapped ==
  [][ frame' = frame + 1 =>
        /\ Abs(player'.pos.x - player.pos.x) <= 2 * ((MoveSpeed * MaxDelta) \div 1000)
        /\ Abs(player'.pos.y - player.pos.y) <= 2 * ((MoveSpeed * MaxDelta) \div 1000)
        /\ (weapon.cooldown > 0 /\ ~shot'.fired) =>
             weapon.cooldown - weapon'.cooldown <= MaxDelta
        /\ \A i \in 1..Len(log') :
             log'[i].ran => log'[i].cd0 - log'[i].cd <= MaxDelta ]_vars

\* in a frame that came 4 s after the last one the weapon has cooled down
\* by 0.1 s and a hostile's attack cooldown was lowered by 0.1 s
C25_Witness ==
  /\ probe.kind = "frame" /\ probe.gap > MaxDelta
  /\ \E i \in 1..Len(log) : log[i].ran /\ log[i].cd0 - log[i].cd = MaxDelta
  /\ probe.cooldown > 0 /\ probe.cooldown - weapon.cooldown = MaxDelta

\* C26 as stated: after every tick the attack cooldown of each hostile, the
\* cooldown of the weapon and the life of each projectile are at least 0
C26_Original ==
  /\ \A i \in 1..Len(sprites) : isEnemy(sprites[i].type) => sprites[i].attackCooldown >= 0
  /\ weapon.cooldown >= 0
  /\ \A k \in 1..Len(projectiles) : projectiles[k].life >= 0

\* C27 as stated: a simulation that has run a frame holds no sprite, other
\* than pickups, corpses and gibs, of a kind without stats
C27_Original ==
  frame > 0 =>
    \A i \in 1..Len(sprites) :
      (~isPickup(sprites[i].type) /\ sprites[i].type \notin {"corpse", "gib"}) =>
        sprites[i].type \in DOMAIN ENEMY_STATS

MoverPos == IF probe.who = "player" THEN player.pos ELSE sprites[1].pos

\* the collision margin of the mover of the probe
MoverMargin ==
  IF probe.who = "player" THEN PLAYER_MARGIN
  ELSE IF ENEMY_STATS[probe.who].floats THEN 0 ELSE COLLISION_MARGIN

\* the move in X of the probe is blocked by a wall
XBlocked ==
  isWall(probe.from.x + probe.dx + Sign(probe.dx) * MoverMargin, probe.from.y)

\* the move in Y of the probe, made from the coordinate x, is blocked
YBlockedAt(x) ==
  isWall(x, probe.from.y + probe.dy + Sign(probe.dy) * MoverMargin)

\* no other sprite is within 0.8 units of a place the move can end at, so
\* that the separation loop of moveSprite pushes nothing
Unpushed ==
  probe.who = "player" \/
    \A j \in 2..Len(sprites) :
      \A x \in {probe.from.x, probe.from.x + probe.dx} :
        \A y \in {probe.from.y, probe.from.y + probe.dy} :
          Dist2([x |-> x, y |-> y], sprites[j].pos) >= 80 * 80

\* C29 as stated: each axis is tested from the place the move starts at;
\* X blocked and Y free moves Y alone, Y blocked and X free moves X alone
C29_Original ==
  probe.kind = "moved" =>
    /\ (XBlocked /\ ~YBlockedAt(probe.from.x)) =>
         MoverPos = [x |-> probe.from.x, y |-> probe.from.y + probe.dy]
    /\ (~XBlocked /\ YBlockedAt(probe.from.x)) =>
         MoverPos = [x |-> probe.from.x + probe.dx, y |-> probe.from.y]

\* C29, amended: X is tested from the place the move starts at and Y from
\* the X the first test left; for the player, and for a hostile no other
\* sprite pushes, X changes by dx exactly when its test passes and Y by dy
\* exactly when its test passes, so neither axis cancels the other
C29_PerAxis ==
  (probe.kind = "moved" /\ Unpushed) =>
    /\ MoverPos.x = IF XBlocked THEN probe.from.x ELSE probe.from.x + probe.dx
    /\ MoverPos.y = IF YBlockedAt(MoverPos.x) THEN probe.from.y
                    ELSE probe.from.y + probe.dy

\* a hostile beside the wall of the room has made a diagonal move into it:
\* the move in X was blocked, the move in Y was free, and the hostile slid
\* along the wall by dy
C29_Witness ==
  /\ probe.kind = "moved" /\ probe.who = "demon" /\ Unpushed
  /\ probe.dx # 0 /\ probe.dy # 0
  /\ XBlocked /\ ~YBlockedAt(probe.from.x)
  /\ MoverPos = [x |-> probe.from.x, y |-> probe.from.y + probe.dy]

\* C30: no resolution of a player's projectile (wall, expiry, direct hit
\* with its splash) changes the player's health, and no resolution of an
\* enemy's projectile changes the health or the state of a sprite
C30_OwnSideUnharmed ==
  \A k \in 1..Len(Outcomes) :
    LET o == Outcomes[k]
    IN /\ o.proj.owner = 0 => o.hp1 = o.hp0
       /\ o.proj.owner # 0 =>
            /\ Len(o.sp1) = Len(o.sp0)
            /\ \A j \in 1..Len(o.sp0) :
                 /\ o.sp1[j].health = o.sp0[j].health
                 /\ o.sp1[j].state = o.sp0[j].state

\* a rocket of the player explodes on a hostile less than its blast radius
\* from the player: hostiles lose health and the player does not
C30_Witness ==
  \E k \in 1..Len(Outcomes) :
    LET o == Outcomes[k]
    IN /\ o.how = "enemy" /\ o.proj.owner = 0 /\ o.proj.radius > 0
       /\ Dist2(player.pos, o.proj.pos) < o.proj.radius * o.proj.radius
       /\ \E j \in 1..Len(o.sp0) : o.sp1[j].health < o.sp0[j].health
       /\ ~player.isDead /\ o.hp1 = o.hp0 /\ player.health = o.hp0

\* C31 as stated: a ranged attack that lowers the player's health is made
\* from at most the kind's projectileRange
C31_Original ==
  \A i \in Ran :
    (RangedTick(i) /\ log[i].hp1 < log[i].hp0) =>
      log[i].dsq <= Stats(i).projectileRange * Stats(i).projectileRange

\* C32: a frame that starts with the player dead leaves the player's
\* position, direction and camera plane alone whatever the input, fires no
\* shot, spends no ammo, and changes no hostile's health and no kill count
C32_DeadPlayerInert ==
  [][ (player.isDead /\ frame' = frame + 1) =>
        /\ player'.pos = player.pos
        /\ player'.dir = player.dir
        /\ player'.plane = player.plane
        /\ player'.ammo = player.ammo
        /\ ~shot'.fired /\ shot'.calls = <<>> /\ shot'.queries = <<>>
        /\ killCount' = killCount
        /\ \A i \in 1..Len(sprites) : sprites'[i].health = sprites[i].health ]_vars

\* a frame with the fire key held, the weapon ready and loaded and a live
\* hostile ahead, played by a player who was dead when it started
C32_Witness ==
  /\ probe.kind = "frame" /\ probe.input.fire
  /\ player.isDead /\ \A i \in 1..Len(log) : log[i].dead0
  /\ probe.cooldown <= 0 /\ hasAmmoForWeapon(player, weapon.type)
  /\ ~shot.fired
  /\ \E i \in Hostiles : sprites[i].state # "dead" /\ sprites[i].health > 0

\* the number of points the path of an update is sampled at
PathSamples == 16

\* the k-th sample of the straight path the projectile of outcome o
\* travelled in the update of the probe
PathPoint(o, k) ==
  [x |-> o.proj.pos.x - RoundDiv(RoundDiv(o.proj.vel.x * probe.dt, 1000) * k, PathSamples),
   y |-> o.proj.pos.y - RoundDiv(RoundDiv(o.proj.vel.y * probe.dt, 1000) * k, PathSamples)]

\* the path of outcome o passes through a solid cell
ThroughWall(o) ==
  \E k \in 0..PathSamples : isWall(PathPoint(o, k).x, PathPoint(o, k).y)

\* C33 as stated: a projectile whose path in an update of at most 0.1 s
\* passes through a solid cell does not fly on after that update
C33_Original ==
  \A k \in 1..Len(Outcomes) :
    (probe.dt <= MaxDelta /\ ThroughWall(Outcomes[k])) => Outcomes[k].how # "flying"

\* C34 as stated: when a hostile lowers the player's health, at least its
\* kind's attackCooldown of simulated time has passed since it last did
C34_Original ==
  [][ frame' = frame + 1 =>
        \A i \in Hostiles :
          (sinceAttack'[i] = 0 /\ sinceAttack[i] >= 0) =>
            sinceAttack[i] + deltaTime(probe'.gap) >= Stats(i).attackCooldown ]_vars

\* C35 as stated: the player is dead exactly when the player's health is 0
C35_Original == player.isDead <=> player.health = 0

\* the number of hostiles in the directory whose state is "dead"
DeadHostiles == Cardinality({i \in Hostiles : sprites[i].state = "dead"})

\* C36: the kill count is the number of dead hostiles
C36_KillsCounted == killCount = DeadHostiles

\* two hostiles are dead and counted, both killed by the last shot
C36_Witness ==
  /\ killCount = 2 /\ DeadHostiles = 2
  /\ Cardinality({k \in 1..Len(shot.calls) :
                    /\ shot.calls[k].before.state # "dead"
                    /\ shot.calls[k].after.state = "dead"}) = 2

\* C37 as stated: when a weapon type fires, at least its cooldown of
\* simulated time has passed since that type last fired
C37_Original ==
  [][ (probe'.kind = "shots" /\ frame' = frame + 1) =>
        \A t \in DOMAIN WEAPON_STATS :
          (probe'.since[t] = 0 /\ probe.since[t] >= 0) =>
            probe.since[t] + probe'.dt >= WEAPON_STATS[t].cooldown ]_vars

\* the number of pickup sprites in the directory
PickupsPresent == Cardinality({i \in 1..Len(sprites) : isPickup(sprites[i].type)})

\* the number of pickups in the spawn list of the directory's level
PickupsSpawned == Cardinality({k \in 1..Len(DirSpawns) : isPickup(DirSpawns[k].type)})

\* C38: the pickups in the directory and the entries of the respawn queue
\* together are as many as the pickups of the spawn list
C38_PickupsConserved == PickupsPresent + Len(respawnQueue) = PickupsSpawned

\* a pickup has been taken and has come back, and another waits in the queue
C38_Witness ==
  /\ nextSpriteId > Len(DirSpawns) + 1
  /\ Len(respawnQueue) = 1
  /\ PickupsPresent = 1
  /\ frame = DirFrames

\* C39 as stated: once Escape has left the lobby or the online game and
\* disconnect() was called, the game mode is not 'online' until hostGame or
\* joinGame is called again
C39_Original == app.left => app.gameMode # "online"

\* C40 as stated: when a game is left or another game is started, a session
\* that has lasted more than 5 s is among the recorded sessions
C40_Original ==
  [][ ( /\ InGame(app.gameMode)
        /\ now - app.began > MinSession
        /\ (~InGame(app'.gameMode) \/ app'.began # app.began) )
      => \E k \in 1..Len(app'.records) :
           app'.records[k].at - app'.records[k].timePlayed = app.began ]_vars

====
